---- MODULE Spec2Model ----
(***************************************************************************)
(* Q16.16 signed fixed point library (q.c): arithmetic kernel, rounding    *)
(* family and text -> Q conversion.                                        *)
(*                                                                         *)
(* q_t / d_t values are held as integers in DMIN..DMAX.  The 64-bit        *)
(* intermediates of the C code (ld_t, lu_t) do not fit a TLC integer, so   *)
(* they are held as two's complement words of four 16-bit limbs, least     *)
(* significant limb first, and every C operator on them is spelled out.    *)
(***************************************************************************)
EXTENDS Integers, Sequences, FiniteSets, TLC

\* ------------------------------------------------------------------------
\* Program constants
\* ------------------------------------------------------------------------
QBITS == 16
MULTIPLIER == 32767
DMAX == 2147483647
DMIN == -DMAX - 1

\* 1 << QBITS: the weight of the integer part, and the size of a limb
LIMB == 2 ^ QBITS
QMASK == LIMB - 1
QHIGH == 2 ^ (QBITS - 1)

\* QINT(INT): (q_t)((u_t)(INT) << QBITS); the bits of INT above the low
\* sixteen are shifted out
QINT(i) == ((((i % LIMB) + QHIGH) % LIMB) - QHIGH) * LIMB

\* ------------------------------------------------------------------------
\* 64-bit words (ld_t / lu_t) as <<l0, l1, l2, l3>>, each limb in 0..65535
\* ------------------------------------------------------------------------
WZero == <<0, 0, 0, 0>>
WOne == <<1, 0, 0, 0>>

\* (ld_t)q : sign extension of a 32-bit signed value
W64(q) ==
  LET ext == IF q < 0 THEN QMASK ELSE 0
  IN  <<q % LIMB, (q \div LIMB) % LIMB, ext, ext>>

\* (lu_t)(u_t)q : zero extension of the 32-bit pattern of q
U32(q) == <<q % LIMB, (q \div LIMB) % LIMB, 0, 0>>

\* (q_t)w : conversion of a 64-bit word to 32 bits keeps the low 32 bits
WToQ(w) ==
  (IF w[2] >= QHIGH THEN w[2] - LIMB ELSE w[2]) * LIMB + w[1]

\* w < 0 as a signed 64-bit value
WIsNeg(w) == w[4] >= QHIGH

\* 64-bit addition, modulo 2^64
WAdd(x, y) ==
  LET s1 == x[1] + y[1]
      s2 == x[2] + y[2] + (s1 \div LIMB)
      s3 == x[3] + y[3] + (s2 \div LIMB)
      s4 == x[4] + y[4] + (s3 \div LIMB)
  IN  <<s1 % LIMB, s2 % LIMB, s3 % LIMB, s4 % LIMB>>

\* ~w
WNot(w) == <<QMASK - w[1], QMASK - w[2], QMASK - w[3], QMASK - w[4]>>

\* -w
WNeg(w) == WAdd(WNot(w), WOne)

\* x - y
WSub(x, y) == WAdd(x, WNeg(y))

\* unsigned comparison x < y
WULess(x, y) ==
  \/ x[4] < y[4]
  \/ x[4] = y[4] /\ x[3] < y[3]
  \/ x[4] = y[4] /\ x[3] = y[3] /\ x[2] < y[2]
  \/ x[4] = y[4] /\ x[3] = y[3] /\ x[2] = y[2] /\ x[1] < y[1]

\* signed comparison x < y
WLess(x, y) ==
  IF WIsNeg(x) # WIsNeg(y) THEN WIsNeg(x) ELSE WULess(x, y)

\* x > y, signed
WMore(x, y) == WLess(y, x)

\* 16 x 16 -> 32 bit unsigned product as <<high limb, low limb>>
Mul16(x, y) ==
  LET p1 == x * (y \div 256)
      p0 == x * (y % 256)
      t  == (p1 % 256) * 256 + p0
  IN  <<(p1 \div 256) + (t \div LIMB), t % LIMB>>

\* 64-bit product modulo 2^64 (the same bits for signed and unsigned)
WMul(x, y) ==
  LET p(i, j) == Mul16(x[i], y[j])
      c1 == p(1,1)[2]
      c2 == p(1,1)[1] + p(1,2)[2] + p(2,1)[2] + (c1 \div LIMB)
      c3 == p(1,2)[1] + p(2,1)[1] + p(1,3)[2] + p(2,2)[2] + p(3,1)[2]
            + (c2 \div LIMB)
      c4 == p(1,3)[1] + p(2,2)[1] + p(3,1)[1]
            + p(1,4)[2] + p(2,3)[2] + p(3,2)[2] + p(4,1)[2] + (c3 \div LIMB)
  IN  <<c1 % LIMB, c2 % LIMB, c3 % LIMB, c4 % LIMB>>

\* (lu_t)w >> 16
WLshr16(w) == <<w[2], w[3], w[4], 0>>

\* w << 16
WShl16(w) == <<0, w[1], w[2], w[3]>>

\* bitwise and of two limbs
RECURSIVE LimbAnd(_, _, _)
LimbAnd(x, y, n) ==
  IF n = 0 THEN 0
  ELSE (IF x % 2 = 1 /\ y % 2 = 1 THEN 1 ELSE 0)
       + 2 * LimbAnd(x \div 2, y \div 2, n - 1)

\* x & y
WAnd(x, y) == [i \in 1..4 |-> LimbAnd(x[i], y[i], QBITS)]

\* bitwise or of two limbs
RECURSIVE LimbOr(_, _, _)
LimbOr(x, y, n) ==
  IF n = 0 THEN 0
  ELSE (IF x % 2 = 1 \/ y % 2 = 1 THEN 1 ELSE 0)
       + 2 * LimbOr(x \div 2, y \div 2, n - 1)

\* x | y
WOr(x, y) == [i \in 1..4 |-> LimbOr(x[i], y[i], QBITS)]

\* bit i (0..63) of w
WBit(w, i) == (w[(i \div QBITS) + 1] \div (2 ^ (i % QBITS))) % 2

\* (w << 1) | bit
WShl1(w, bit) ==
  LET s1 == 2 * w[1] + bit
      s2 == 2 * w[2] + (s1 \div LIMB)
      s3 == 2 * w[3] + (s2 \div LIMB)
      s4 == 2 * w[4] + (s3 \div LIMB)
  IN  <<s1 % LIMB, s2 % LIMB, s3 % LIMB, s4 % LIMB>>

\* one step of unsigned binary long division: qr = <<quotient, remainder>>
WUDivStep(n, d, i, qr) ==
  LET r2 == WShl1(qr[2], WBit(n, i))
  IN  IF WULess(r2, d) THEN <<WShl1(qr[1], 0), r2>>
      ELSE <<WShl1(qr[1], 1), WSub(r2, d)>>

\* at most count steps of the long division, from bit st[1] downwards, the
\* first half of them and then the others; st is <<bit, <<quotient,
\* remainder>>>>
RECURSIVE WUDivBits(_, _, _, _)
WUDivBits(n, d, count, st) ==
  LET others(u) == WUDivBits(n, d, count - count \div 2, u)
  IN  IF st[1] < 0 THEN st
      ELSE IF count = 1
      THEN <<st[1] - 1, WUDivStep(n, d, st[1], st[2])>>
      ELSE others(WUDivBits(n, d, count \div 2, st))

\* unsigned 64-bit long division n / d, d # 0: <<quotient, remainder>>
WUDivMod(n, d) == WUDivBits(n, d, 64, <<63, <<WZero, WZero>>>>)[2]

WAbs(w) == IF WIsNeg(w) THEN WNeg(w) ELSE w

\* x / y on signed 64-bit values: C division truncates toward zero
WDiv(x, y) ==
  LET qr == WUDivMod(WAbs(x), WAbs(y))
  IN  IF WIsNeg(x) # WIsNeg(y) THEN WNeg(qr[1]) ELSE qr[1]

\* x % y on signed 64-bit values: the remainder has the sign of x
WRem(x, y) ==
  LET qr == WUDivMod(WAbs(x), WAbs(y))
  IN  IF WIsNeg(x) THEN WNeg(qr[2]) ELSE qr[2]

\* x / y on d_t values (C truncating division), y # 0
CDiv(x, y) == WToQ(WDiv(W64(x), W64(y)))

\* ------------------------------------------------------------------------
\* State
\* ------------------------------------------------------------------------
VARIABLES
  qconf,   \* global configuration: overflow policy, places, radix
  a, b, c, \* q_t arguments of the call
  text,    \* characters handed to the text -> Q conversion
  base,    \* radix handed to the conversion
  idp,     \* decimal places handed to the conversion
  length,  \* size of the buffer handed to the conversion
  pc,      \* "idle" before the call, then the name of the function called
  r,       \* value returned (a q_t, or [rc, q] / [rc, s] for a conversion)
  evaluator, \* the qexpr_t object handed to qexpr
  frame,   \* the locals of qexpr: expr, firstop, previous, l
  locals   \* the locals of the numeric routine that is running

vars ==
  <<qconf, a, b, c, text, base, idp, length, pc, r, evaluator, frame,
    locals>>

\* ------------------------------------------------------------------------
\* Overflow policy
\* ------------------------------------------------------------------------
\* variant: the clamp forgets the lower limit
qbound_saturate_high(s) == DMAX

qbound_saturate(s) ==
  IF WMore(s, W64(DMAX)) THEN DMAX ELSE DMIN

qbound_wrap(s) ==
  IF WMore(s, W64(DMAX))
  THEN WToQ(WAdd(W64(DMIN), WRem(s, W64(DMAX))))
  ELSE WToQ(WSub(W64(DMAX), WRem(WNeg(s), W64(DMAX))))

qsat(s) ==
  IF WMore(s, W64(DMAX)) \/ WLess(s, W64(DMIN))
  THEN (IF qconf.bound = "qbound_saturate" THEN qbound_saturate(s)
        ELSE qbound_wrap(s))
  ELSE WToQ(s)

\* ------------------------------------------------------------------------
\* Basic library routines.  A u_t value is held as the q_t with the same
\* 32-bit pattern when it does not fit a signed 32-bit integer.
\* ------------------------------------------------------------------------
qhigh(q) == (q \div LIMB) % LIMB
qlow(q) == q % LIMB
qcons(hi, lo) == WToQ(<<lo % LIMB, hi % LIMB, 0, 0>>)

qisnegative(q) == IF qhigh(q) >= QHIGH THEN QINT(1) ELSE QINT(0)
qispositive(q) == IF qhigh(q) >= QHIGH THEN QINT(0) ELSE QINT(1)
qisinteger(q) == IF qlow(q) = 0 THEN QINT(1) ELSE QINT(0)

\* (~(u_t)a) + 1ULL, converted to q_t
qnegate(q) ==
  WToQ(WAdd(<<QMASK - qlow(q), QMASK - qhigh(q), 0, 0>>, WOne))

qabs(q) == IF qisnegative(q) # 0 THEN qnegate(q) ELSE q
qadd(x, y) == qsat(WAdd(W64(x), W64(y)))
qsub(x, y) == qsat(WSub(W64(x), W64(y)))

\* v >> p with the sign bits filled in by hand, 0 <= p <= 30
divn(v, p) ==
  LET shifted == IF p < QBITS
                 THEN <<(qhigh(v) % (2 ^ p)) * (2 ^ (QBITS - p))
                          + (qlow(v) \div (2 ^ p)),
                        qhigh(v) \div (2 ^ p), 0, 0>>
                 ELSE <<qhigh(v) \div (2 ^ (p - QBITS)), 0, 0, 0>>
      leading == IF p < QBITS
                 THEN <<0, (2 ^ (p + 1) - 1) * (2 ^ (QBITS - 1 - p)), 0, 0>>
                 ELSE <<(2 ^ (p + 1 - QBITS) - 1) * (2 ^ (2 * QBITS - 1 - p)),
                        QMASK, 0, 0>>
  IN  IF qispositive(v) # 0 THEN WToQ(shifted)
      ELSE WToQ(WOr(leading, shifted))

qfloor(q) == WToQ(WAnd(W64(q), WNot(<<QMASK, 0, 0, 0>>)))

qceil(q) ==
  LET adj == IF qisinteger(q) # 0 THEN QINT(0) ELSE QINT(1)
  IN  WToQ(WAnd(U32(qadd(q, adj)), WShl16(<<QMASK, 0, 0, 0>>)))

\* variant: no adjustment of negative values, which is qfloor
qtrunc_floor(q) == WToQ(WAnd(U32(q), WShl16(<<QMASK, 0, 0, 0>>)))

qtrunc(q) ==
  LET adj == IF qisnegative(q) # 0 /\ qlow(q) # 0 THEN QINT(1) ELSE QINT(0)
  IN  WToQ(WAnd(U32(qadd(q, adj)), WShl16(<<QMASK, 0, 0, 0>>)))

qround(q) ==
  LET negative == qisnegative(q)
      q1  == qabs(q)
      adj == IF LimbAnd(qlow(q1), QHIGH, QBITS) # 0 THEN QINT(1) ELSE QINT(0)
      q2  == qadd(q1, adj)
      q3  == WToQ(WAnd(U32(q2), WShl16(<<QMASK, 0, 0, 0>>)))
  IN  IF negative # 0 THEN qnegate(q3) ELSE q3

\* variant: the logical shift alone, without the sign bits put back
multiply_logical(x, y) ==
  WLshr16(WAdd(WMul(W64(x), W64(y)), <<QHIGH, 0, 0, 0>>))

multiply(x, y) ==
  LET dd == WAdd(WMul(W64(x), W64(y)), <<QHIGH, 0, 0, 0>>)
  IN  IF WIsNeg(dd)
      THEN WOr(WShl16(WShl16(WNot(WZero))), WLshr16(dd))
      ELSE WLshr16(dd)

qmul(x, y) == qsat(multiply(x, y))

qfma(x, y, z) == qsat(WAdd(multiply(x, y), W64(z)))

\* the 64-bit quotient (dd + bd2) / b of qdiv, y # 0 (asserted by the code)
qdiv_quotient(x, y) ==
  LET dd  == WShl16(W64(x))
      bd2 == W64(divn(y, 1))
      same == (~WIsNeg(dd) /\ y > 0) \/ (WIsNeg(dd) /\ y < 0)
      bias == IF ~same THEN WNeg(bd2) ELSE bd2
  IN  WDiv(WAdd(dd, bias), W64(y))

\* the quotient is returned as a q_t with no overflow check
qdiv(x, y) == WToQ(qdiv_quotient(x, y))

qrem(x, y) == qsub(x, qmul(qtrunc(qdiv(x, y)), y))

qmod(x, y) == qsub(x, qmul(qfloor(qdiv(x, y)), y))

\* ------------------------------------------------------------------------
\* Text -> Q conversion.  A text is a sequence of one-character strings; the
\* caller passes its length, so the scan ends at Len(s).
\* ------------------------------------------------------------------------
LowerDigits ==
  <<"0", "1", "2", "3", "4", "5", "6", "7", "8", "9", "a", "b", "c", "d",
    "e", "f", "g", "h", "i", "j", "k", "l", "m", "n", "o", "p", "q", "r",
    "s", "t", "u", "v", "w", "x", "y", "z">>

UpperDigits ==
  <<"0", "1", "2", "3", "4", "5", "6", "7", "8", "9", "A", "B", "C", "D",
    "E", "F", "G", "H", "I", "J", "K", "L", "M", "N", "O", "P", "Q", "R",
    "S", "T", "U", "V", "W", "X", "Y", "Z">>

\* tolower(c), then the value of the digit or letter, -1 when it is none
\* or not below the radix
extract(ch, radix) ==
  LET hit == {i \in 1 .. Len(LowerDigits) :
                LowerDigits[i] = ch \/ UpperDigits[i] = ch}
      v   == IF hit = {} THEN -1 ELSE (CHOOSE i \in hit : TRUE) - 1
  IN  IF v >= 0 /\ v < radix THEN v ELSE -1

qmk(integer, fractional) ==
  LET negative == integer < 0
      mag == IF negative THEN WToQ(WNeg(W64(integer))) ELSE integer
      q   == qcons(mag, fractional)
  IN  IF negative THEN qnegate(q) ELSE q

RECURSIVE integer_logarithm_loop(_, _, _)
integer_logarithm_loop(num, radix, n) ==
  IF num \div radix # 0
  THEN integer_logarithm_loop(num \div radix, radix, n + 1)
  ELSE n + 1

\* u_t r = -1; do r++; while (num /= base);
integer_logarithm(num, radix) == integer_logarithm_loop(num, radix, -1)

\* MIN(idp, ilog) on u_t values: a negative idp is a huge unsigned number
MIN_u(x, y) == IF x < 0 THEN y ELSE IF x < y THEN x ELSE y

\* the loop over the integer digits: <<sidx, hi, overflow>> when it ends,
\* sidx counted from 1
qnconvbdp_integer(s, radix, start) ==
  LET loop[st \in Nat \X Nat \X BOOLEAN] ==
        IF st[1] > Len(s) \/ extract(s[st[1]], radix) < 0 THEN st
        ELSE IF st[2] > MULTIPLIER
             THEN loop[<<st[1] + 1, st[2], TRUE>>]
             ELSE loop[<<st[1] + 1,
                         st[2] * radix + extract(s[st[1]], radix), st[3]>>]
  IN  loop[<<start, 0, FALSE>>]

\* the loop over the fractional digits: <<rc, lo, places>>, rc 0 when the
\* loop ran to the end of the text
qnconvbdp_fraction(s, radix, max, start) ==
  LET loop[st \in Nat \X Nat \X Int \X Int] ==
        LET sidx == st[1]
            dp == st[2]
            lo == st[3]
            places == st[4]
            ch == extract(s[sidx], radix)
        IN  IF sidx > Len(s) THEN <<0, lo, places>>
            ELSE IF ch < 0 THEN <<-3, lo, places>>
            ELSE IF dp < max
                 THEN IF places >= DMAX \div radix THEN <<-4, lo, places>>
                      ELSE loop[<<sidx + 1, dp + 1, lo * radix + ch,
                                  places * radix>>]
                 ELSE loop[<<sidx + 1, dp + 1, lo, places>>]
  IN  loop[<<start, 0, 0, 1>>]

\* [rc |-> value returned, q |-> value stored through the pointer]
qnconvbdp(s, radix, places_arg) ==
  LET len == Len(s)
      negative == len >= 1 /\ s[1] = "-"
      ip == qnconvbdp_integer(s, radix, IF negative THEN 2 ELSE 1)
      sidx == ip[1]
      hi == ip[2]
      overflow == ip[3]
      max == MIN_u(places_arg, integer_logarithm(LIMB, radix))
      fr == qnconvbdp_fraction(s, radix, max, sidx + 1)
      lo == CDiv(WToQ(WShl16(W64(fr[2]))), fr[3])
      done(l) ==
        IF overflow
        THEN [rc |-> -6, q |-> IF negative THEN DMIN ELSE DMAX]
        ELSE [rc |-> 0,
              q |-> IF negative THEN qnegate(qmk(hi, l)) ELSE qmk(hi, l)]
  IN  IF len < 1 THEN [rc |-> -1, q |-> QINT(0)]
      ELSE IF negative /\ len < 2 THEN [rc |-> -1, q |-> QINT(0)]
      ELSE IF sidx > len THEN done(0)
      ELSE IF s[sidx] # "." THEN [rc |-> -2, q |-> QINT(0)]
      ELSE IF fr[1] # 0 THEN [rc |-> fr[1], q |-> QINT(0)]
      ELSE IF fr[3] = 0 THEN [rc |-> -5, q |-> QINT(0)]
      ELSE done(lo)

\* ------------------------------------------------------------------------
\* Q -> text conversion
\* ------------------------------------------------------------------------
itoch(ch) == UpperDigits[ch + 1]

RECURSIVE reverse(_)
reverse(s) == IF s = <<>> THEN <<>> ELSE Append(reverse(Tail(s)), Head(s))

\* the digits of p, least significant first, until p is 0 or len digits
\* are written: <<p left, digits>>
uprint_digits(p, len, radix) ==
  LET loop[st \in Nat \X Seq(Nat)] ==
        LET n == st[1] \div radix
            ds == Append(st[2], st[1] % radix)
        IN  IF n # 0 /\ Len(ds) < len THEN loop[<<n, ds>>] ELSE <<n, ds>>
  IN  loop[<<p, <<>>>>]

\* [rc |-> number of characters or -1, s |-> characters left in the buffer]
uprint(p, len, radix) ==
  LET w == uprint_digits(p, len, radix)
      chars == [i \in 1 .. Len(w[2]) |-> itoch(w[2][i])]
  IN  IF len < 2 THEN [rc |-> -1, s |-> <<>>]
      ELSE IF w[1] # 0 /\ Len(chars) >= len THEN [rc |-> -1, s |-> chars]
      ELSE [rc |-> Len(chars), s |-> reverse(chars)]

\* the loop that fills frac[]: <<i, digits written to frac[1 ..], assert
\* violated>>; frac has QBITS + 2 elements and the loop asserts i < QBITS + 2
\* before it stores frac[i]
qsprintbdp_fraction(lo0, radix, places_arg) ==
  LET loop[st \in Nat \X Nat \X Seq(Nat)] ==
        LET i == st[1]
            lo == st[2] * radix
        IN  IF st[2] = 0 THEN <<i, st[3], FALSE>>
            ELSE IF places_arg >= 0 /\ i > places_arg THEN <<i, st[3], FALSE>>
            ELSE IF ~(i < QBITS + 2) THEN <<i, st[3], TRUE>>
            ELSE loop[<<i + 1, lo % LIMB, Append(st[3], lo \div LIMB)>>]
  IN  loop[<<1, lo0, <<>>>>]

\* [rc |-> value returned, s |-> the characters in the buffer up to the
\* first NUL, abort |-> the assertion in the fraction loop failed];
\* len >= 2, the buffer is zeroed first
qsprintbdp(p0, len, radix, places_arg) ==
  LET negative == qisnegative(p0) # 0
      p == IF negative THEN qnegate(p0) ELSE p0
      hi == qhigh(p)
      fr == qsprintbdp_fraction(qlow(p), radix, places_arg)
      i == fr[1]
      frac == <<".">> \o [k \in 1 .. Len(fr[2]) |-> itoch(fr[2][k])]
      sign == IF negative THEN <<"-">> ELSE <<>>
      neg == IF negative THEN 1 ELSE 0
      up == uprint(hi, len - (1 + neg), radix)
  IN  IF fr[3] THEN [rc |-> -1, s |-> <<>>, abort |-> TRUE]
      ELSE IF up.rc < 0 \/ up.rc + i + neg + 1 > len
           THEN [rc |-> -1, s |-> sign \o up.s, abort |-> FALSE]
           ELSE [rc |-> i + up.rc, s |-> sign \o up.s \o frac,
                 abort |-> FALSE]

\* ------------------------------------------------------------------------
\* Serialisation.  A buffer is a sequence of bytes, 0 .. 255.
\* ------------------------------------------------------------------------
CHAR_BIT == 8
BYTE == 2 ^ CHAR_BIT

\* sizeof(q_t)
SizeofQ == (2 * QBITS) \div CHAR_BIT

\* (u_t)qn >> CHAR_BIT
ULshr8(qn) == U32(qn)[2] * (LIMB \div BYTE) + U32(qn)[1] \div BYTE

\* the loop of qpack: b[i] = qn; qn = (u_t)qn >> CHAR_BIT;
RECURSIVE qpack_loop(_, _, _)
qpack_loop(qn, i, buffer) ==
  IF i >= SizeofQ THEN buffer
  ELSE qpack_loop(ULshr8(qn), i + 1, [buffer EXCEPT ![i + 1] = qn % BYTE])

\* [rc |-> value returned, buffer |-> the buffer afterwards]
qpack(q, buffer, len) ==
  IF len < SizeofQ THEN [rc |-> -1, buffer |-> buffer]
  ELSE [rc |-> SizeofQ, buffer |-> qpack_loop(q, 0, buffer)]

\* nq <<= CHAR_BIT; nq |= byte; on a u_t held as two limbs
UShl8Or(nq, byte) ==
  <<((nq[1] * BYTE) % LIMB) + byte,
    (nq[2] * BYTE + nq[1] \div (LIMB \div BYTE)) % LIMB, 0, 0>>

RECURSIVE qunpack_msb_first(_, _, _)
qunpack_msb_first(nq, i, buffer) ==
  IF i >= SizeofQ THEN nq
  ELSE qunpack_msb_first(UShl8Or(nq, buffer[i + 1]), i + 1, buffer)

\* the loop of qunpack: nq <<= CHAR_BIT; nq |= b[sizeof(*q)-i-1];
RECURSIVE qunpack_loop(_, _, _)
qunpack_loop(nq, i, buffer) ==
  IF i >= SizeofQ THEN nq
  ELSE qunpack_loop(UShl8Or(nq, buffer[SizeofQ - i - 1 + 1]), i + 1, buffer)

\* [rc |-> value returned, q |-> *q afterwards], q0 is *q before the call
qunpack(q0, buffer, len) ==
  IF len < SizeofQ THEN [rc |-> -1, q |-> q0]
  ELSE [rc |-> SizeofQ, q |-> WToQ(qunpack_loop(WZero, 0, buffer))]

\* ------------------------------------------------------------------------
\* Expression evaluator.  Characters are one-character strings; a name is
\* a sequence of characters.
\* ------------------------------------------------------------------------
QMAX_ID == 32
CONFIG_Q_HIDE_FUNCS == 0
NULL == 0
LEX_NUMBER == 0
LEX_OPERATOR == 1
LEX_END == 2

\* the printable characters in the order of their codes, from 32 on (the
\* grave accent, code 96, cannot be written in a string here)
AsciiPrintable ==
  <<" ", "!", "\"", "#", "$", "%", "&", "'", "(", ")", "*", "+",
    ",", "-", ".", "/", "0", "1", "2", "3", "4", "5", "6", "7",
    "8", "9", ":", ";", "<", "=", ">", "?", "@", "A", "B", "C",
    "D", "E", "F", "G", "H", "I", "J", "K", "L", "M", "N", "O",
    "P", "Q", "R", "S", "T", "U", "V", "W", "X", "Y", "Z", "[",
    "\\", "]", "^", "_", "grave", "a", "b", "c", "d", "e", "f", "g",
    "h", "i", "j", "k", "l", "m", "n", "o", "p", "q", "r", "s",
    "t", "u", "v", "w", "x", "y", "z", "{", "|", "}", "~">>

\* the code of a character, 0 for one that is not printable
CharCode(ch) ==
  LET hit == {i \in 1 .. Len(AsciiPrintable) : AsciiPrintable[i] = ch}
  IN  IF hit = {} THEN 0 ELSE (CHOOSE i \in hit : TRUE) + 31

\* <ctype.h> in the C locale
isdigit(ch) == CharCode(ch) \in 48 .. 57
isalpha(ch) == CharCode(ch) \in (65 .. 90) \cup (97 .. 122)
isalnum(ch) == isalpha(ch) \/ isdigit(ch)
ispunct(ch) == CharCode(ch) \in 33 .. 126 /\ ~isalnum(ch)
isspace(ch) == ch \in {" ", "\t", "\n", "\r", "\f"}

\* strcmp from character i on; the end of a name is the NUL character
RECURSIVE strcmp(_, _, _)
strcmp(s1, s2, i) ==
  LET c1 == IF i > Len(s1) THEN 0 ELSE CharCode(s1[i])
      c2 == IF i > Len(s2) THEN 0 ELSE CharCode(s2[i])
  IN  IF c1 # c2 THEN c1 - c2
      ELSE IF c1 = 0 THEN 0
      ELSE strcmp(s1, s2, i + 1)

\* the table of qop, in its order: name, function, check function,
\* precedence, arity, associativity, hidden
Op(name, eval, check, precedence, arity, assocativity, hidden) ==
  [name |-> name, eval |-> eval, check |-> check, precedence |-> precedence,
   arity |-> arity, assocativity |-> assocativity, hidden |-> hidden]

ops ==
  <<
    Op(<<"!">>, "qnot", "NULL", 5, 1, "ASSOCIATE_RIGHT", 0),
    Op(<<"!", "=">>, "qunequal", "NULL", 2, 2, "ASSOCIATE_LEFT", 0),
    Op(<<"%">>, "qrem", "check_div0", 3, 2, "ASSOCIATE_LEFT", 0),
    Op(<<"&">>, "qand", "NULL", 2, 2, "ASSOCIATE_LEFT", 0),
    Op(<<"(">>, "NULL", "NULL", 0, 0, "ASSOCIATE_NONE", 0),
    Op(<<")">>, "NULL", "NULL", 0, 0, "ASSOCIATE_NONE", 0),
    Op(<<"*">>, "qmul", "NULL", 3, 2, "ASSOCIATE_LEFT", 0),
    Op(<<"+">>, "qadd", "NULL", 2, 2, "ASSOCIATE_LEFT", 0),
    Op(<<"-">>, "qsub", "NULL", 2, 2, "ASSOCIATE_LEFT", 0),
    Op(<<"/">>, "qdiv", "check_div0", 3, 2, "ASSOCIATE_LEFT", 0),
    Op(<<"<">>, "qless", "NULL", 2, 2, "ASSOCIATE_LEFT", 0),
    Op(<<"<", "<">>, "qlls", "NULL", 4, 2, "ASSOCIATE_RIGHT", 0),
    Op(<<"<", "=">>, "qeqless", "NULL", 2, 2, "ASSOCIATE_LEFT", 0),
    Op(<<"=", "=">>, "qequal", "NULL", 2, 2, "ASSOCIATE_LEFT", 0),
    Op(<<">">>, "qmore", "NULL", 2, 2, "ASSOCIATE_LEFT", 0),
    Op(<<">", "=">>, "qeqmore", "NULL", 2, 2, "ASSOCIATE_LEFT", 0),
    Op(<<">", ">">>, "qlrs", "NULL", 4, 2, "ASSOCIATE_RIGHT", 0),
    Op(<<"^">>, "qxor", "NULL", 2, 2, "ASSOCIATE_LEFT", 0),
    Op(<<"_", "d", "i", "v">>,
       "qcordic_div", "NULL", 5, 2, "ASSOCIATE_RIGHT", 1),
    Op(<<"_", "e", "x", "p">>,
       "qcordic_exp", "NULL", 5, 1, "ASSOCIATE_RIGHT", 1),
    Op(<<"_", "l", "n">>,
       "qcordic_ln", "check_nlez", 5, 1, "ASSOCIATE_RIGHT", 1),
    Op(<<"_", "m", "u", "l">>,
       "qcordic_mul", "NULL", 5, 2, "ASSOCIATE_RIGHT", 1),
    Op(<<"_", "s", "q", "r", "t">>,
       "qcordic_sqrt", "check_nlz", 5, 1, "ASSOCIATE_RIGHT", 1),
    Op(<<"a", "b", "s">>, "qabs", "NULL", 5, 1, "ASSOCIATE_RIGHT", 0),
    Op(<<"a", "c", "o", "s">>,
       "qacos", "check_alo", 5, 1, "ASSOCIATE_RIGHT", 0),
    Op(<<"a", "c", "o", "s", "h">>,
       "qacosh", "check_nlo", 5, 1, "ASSOCIATE_RIGHT", 0),
    Op(<<"a", "r", "s", "h", "i", "f", "t">>,
       "qars", "NULL", 4, 2, "ASSOCIATE_RIGHT", 1),
    Op(<<"a", "s", "i", "n">>,
       "qasin", "check_alo", 5, 1, "ASSOCIATE_RIGHT", 0),
    Op(<<"a", "s", "i", "n", "h">>,
       "qasinh", "NULL", 5, 1, "ASSOCIATE_RIGHT", 0),
    Op(<<"a", "t", "a", "n">>, "qatan", "NULL", 5, 1, "ASSOCIATE_RIGHT", 0),
    Op(<<"a", "t", "a", "n", "2">>,
       "qatan2", "NULL", 5, 2, "ASSOCIATE_RIGHT", 1),
    Op(<<"a", "t", "a", "n", "h">>,
       "qatanh", "check_alo", 5, 1, "ASSOCIATE_RIGHT", 0),
    Op(<<"b", "a", "s", "e">>, "qbase", "NULL", 2, 1, "ASSOCIATE_RIGHT", 0),
    Op(<<"c", "e", "i", "l">>, "qceil", "NULL", 5, 1, "ASSOCIATE_RIGHT", 0),
    Op(<<"c", "o", "p", "y", "s", "i", "g", "n">>,
       "qcopysign", "NULL", 4, 2, "ASSOCIATE_RIGHT", 1),
    Op(<<"c", "o", "s">>, "qcos", "NULL", 5, 1, "ASSOCIATE_RIGHT", 0),
    Op(<<"c", "o", "s", "h">>, "qcosh", "NULL", 5, 1, "ASSOCIATE_RIGHT", 0),
    Op(<<"c", "o", "t">>, "qcot", "NULL", 5, 1, "ASSOCIATE_RIGHT", 0),
    Op(<<"d", "e", "g", "2", "r", "a", "d">>,
       "qdeg2rad", "NULL", 5, 1, "ASSOCIATE_RIGHT", 0),
    Op(<<"e", "v", "e", "n", "?">>,
       "qiseven", "NULL", 5, 1, "ASSOCIATE_RIGHT", 0),
    Op(<<"e", "x", "p">>, "qexp", "NULL", 5, 1, "ASSOCIATE_RIGHT", 0),
    Op(<<"f", "l", "o", "o", "r">>,
       "qfloor", "NULL", 5, 1, "ASSOCIATE_RIGHT", 0),
    Op(<<"h", "y", "p", "o", "t">>,
       "qhypot", "NULL", 5, 2, "ASSOCIATE_RIGHT", 0),
    Op(<<"i", "n", "t", "?">>,
       "qisinteger", "NULL", 5, 1, "ASSOCIATE_RIGHT", 0),
    Op(<<"l", "o", "g">>, "qlog", "check_nlez", 5, 1, "ASSOCIATE_RIGHT", 0),
    Op(<<"l", "s", "h", "i", "f", "t">>,
       "qlls", "NULL", 4, 2, "ASSOCIATE_RIGHT", 1),
    Op(<<"m", "a", "x">>, "qmax", "NULL", 5, 2, "ASSOCIATE_RIGHT", 1),
    Op(<<"m", "i", "n">>, "qmin", "NULL", 5, 2, "ASSOCIATE_RIGHT", 1),
    Op(<<"m", "o", "d">>, "qmod", "check_div0", 3, 2, "ASSOCIATE_LEFT", 0),
    Op(<<"n", "e", "g", "?">>,
       "qisnegative", "NULL", 5, 1, "ASSOCIATE_RIGHT", 0),
    Op(<<"n", "e", "g", "a", "t", "e">>,
       "qnegate", "NULL", 5, 1, "ASSOCIATE_RIGHT", 0),
    Op(<<"o", "d", "d", "?">>, "qisodd", "NULL", 5, 1, "ASSOCIATE_RIGHT", 0),
    Op(<<"p", "l", "a", "c", "e", "s">>,
       "qplaces", "NULL", 2, 1, "ASSOCIATE_RIGHT", 0),
    Op(<<"p", "o", "s", "?">>,
       "qispositive", "NULL", 5, 1, "ASSOCIATE_RIGHT", 0),
    Op(<<"p", "o", "w">>, "qpow", "NULL", 5, 2, "ASSOCIATE_RIGHT", 0),
    Op(<<"r", "a", "d", "2", "d", "e", "g">>,
       "qrad2deg", "NULL", 5, 1, "ASSOCIATE_RIGHT", 0),
    Op(<<"r", "e", "m">>, "qrem", "check_div0", 3, 2, "ASSOCIATE_LEFT", 0),
    Op(<<"r", "o", "u", "n", "d">>,
       "qround", "NULL", 5, 1, "ASSOCIATE_RIGHT", 0),
    Op(<<"r", "s", "h", "i", "f", "t">>,
       "qlrs", "NULL", 4, 2, "ASSOCIATE_RIGHT", 1),
    Op(<<"s", "i", "g", "n">>, "qsign", "NULL", 5, 1, "ASSOCIATE_RIGHT", 0),
    Op(<<"s", "i", "g", "n", "u", "m">>,
       "qsignum", "NULL", 5, 1, "ASSOCIATE_RIGHT", 0),
    Op(<<"s", "i", "n">>, "qsin", "NULL", 5, 1, "ASSOCIATE_RIGHT", 0),
    Op(<<"s", "i", "n", "h">>, "qsinh", "NULL", 5, 1, "ASSOCIATE_RIGHT", 0),
    Op(<<"s", "q", "r", "t">>,
       "qsqrt", "check_nlz", 5, 1, "ASSOCIATE_RIGHT", 0),
    Op(<<"t", "a", "n">>, "qtan", "NULL", 5, 1, "ASSOCIATE_RIGHT", 0),
    Op(<<"t", "a", "n", "h">>, "qtanh", "NULL", 5, 1, "ASSOCIATE_RIGHT", 0),
    Op(<<"t", "r", "u", "n", "c">>,
       "qtrunc", "NULL", 5, 1, "ASSOCIATE_RIGHT", 0),
    Op(<<"|">>, "qor", "NULL", 2, 2, "ASSOCIATE_LEFT", 0),
    Op(<<"~">>, "qinvert", "NULL", 5, 1, "ASSOCIATE_RIGHT", 0)
  >>

\* a size_t that wrapped below zero; any value of at least Len(ops) gives
\* the same run
SIZE_MAX == DMAX

\* the binary search of qop: the index of the entry (from 1), NULL, or -1
\* when assert(m < length) fails
qop(op) ==
  LET len == Len(ops)
      loop[st \in Nat \X Nat] ==
        LET l == st[1]
            rr == st[2]
            m == l + ((rr - l) \div 2)
            comp == strcmp(ops[m + 1].name, op, 1)
        IN  IF ~(l <= rr) THEN NULL
            ELSE IF ~(m < len) THEN -1
            ELSE IF comp = 0 THEN m + 1
            ELSE IF comp < 0 THEN loop[<<m + 1, rr>>]
            ELSE loop[<<l, IF m = 0 THEN SIZE_MAX ELSE m - 1>>]
  IN  loop[<<0, len - 1>>]

qless(x, y) == IF x < y THEN QINT(1) ELSE QINT(0)
qeqless(x, y) == IF x <= y THEN QINT(1) ELSE QINT(0)
qmore(x, y) == IF x > y THEN QINT(1) ELSE QINT(0)
qeqmore(x, y) == IF x >= y THEN QINT(1) ELSE QINT(0)
qequal(x, y) == IF x = y THEN QINT(1) ELSE QINT(0)
qunequal(x, y) == IF x # y THEN QINT(1) ELSE QINT(0)

\* error(): <<e, value returned>>; the message is the format and its
\* argument, and e.errors logs the messages in the order they are recorded
error(e, fmt) ==
  IF e.error # 0 THEN <<e, 0>>
  ELSE <<[e EXCEPT !.error_string = fmt, !.error = -1,
                   !.errors = Append(@, fmt)], -QINT(1)>>

\* the precondition checks of the table: <<e, value returned>>
check_div0(e, x, y) ==
  IF y = 0 THEN error(e, <<"division by zero">>) ELSE <<e, QINT(0)>>

check_nlz(e, x) ==
  IF qless(x, QINT(0)) # 0 THEN error(e, <<"negative argument">>)
  ELSE <<e, QINT(0)>>

check_nlez(e, x) ==
  IF qeqless(x, QINT(0)) # 0 THEN error(e, <<"negative or zero argument">>)
  ELSE <<e, QINT(0)>>

check_nlo(e, x) ==
  IF qless(x, QINT(1)) # 0 THEN error(e, <<"out of range [1, INF]">>)
  ELSE <<e, QINT(0)>>

check_alo(e, x) ==
  IF qmore(qabs(x), QINT(1)) # 0 THEN error(e, <<"out of range [-1, 1]">>)
  ELSE <<e, QINT(0)>>

\* pop->check.unary(e, a) and pop->check.binary(e, b, a)
check_unary(e, name, x) ==
  CASE name = "check_nlz" -> check_nlz(e, x)
    [] name = "check_nlez" -> check_nlez(e, x)
    [] name = "check_nlo" -> check_nlo(e, x)
    [] name = "check_alo" -> check_alo(e, x)

check_binary(e, name, x, y) ==
  CASE name = "check_div0" -> check_div0(e, x, y)

\* the functions of the table that fail an assertion on these arguments:
\* qdiv asserts its divisor, and qrem and qmod call qdiv
eval_asserts(name, x, y) == name \in {"qdiv", "qrem", "qmod"} /\ y = 0

qtoi(toi) == toi \div LIMB

\* the values returned by qbase and qplaces; their assignments to qconf are
\* in qconf_after
qbase(x) == IF qtoi(x) < 2 \/ qtoi(x) > 36 THEN -QINT(1) ELSE x
qplaces(places) == places

\* pop->eval.unary(a) and pop->eval.binary(b, a), for the functions that
\* the expressions of this model can name
eval_unary(name, x) ==
  CASE name = "qnegate" -> qnegate(x)
    [] name = "qbase" -> qbase(x)
    [] name = "qplaces" -> qplaces(x)
    [] name = "qabs" -> qabs(x)
    [] name = "qfloor" -> qfloor(x)
    [] name = "qceil" -> qceil(x)
    [] name = "qtrunc" -> qtrunc(x)
    [] name = "qround" -> qround(x)
    [] name = "qisnegative" -> qisnegative(x)
    [] name = "qispositive" -> qispositive(x)
    [] name = "qisinteger" -> qisinteger(x)

eval_binary(name, x, y) ==
  CASE name = "qadd" -> qadd(x, y)
    [] name = "qsub" -> qsub(x, y)
    [] name = "qmul" -> qmul(x, y)
    [] name = "qdiv" -> qdiv(x, y)
    [] name = "qrem" -> qrem(x, y)
    [] name = "qmod" -> qmod(x, y)
    [] name = "qless" -> qless(x, y)
    [] name = "qeqless" -> qeqless(x, y)
    [] name = "qmore" -> qmore(x, y)
    [] name = "qeqmore" -> qeqmore(x, y)
    [] name = "qequal" -> qequal(x, y)
    [] name = "qunequal" -> qunequal(x, y)

number_push_unchecked(e, num) ==
  IF e.error # 0 THEN <<e, -1>>
  ELSE <<[e EXCEPT !.numbers = Append(@, num)], 0>>

\* the stacks: <<e, value returned>>; capacities are at least 1
number_push(e, num) ==
  IF e.error # 0 THEN <<e, -1>>
  ELSE IF Len(e.numbers) > e.numbers_max - 1
       THEN <<error(e, <<"number stack overflow">>)[1], -1>>
       ELSE <<[e EXCEPT !.numbers = Append(@, num)], 0>>

number_pop(e) ==
  IF e.error # 0 THEN <<e, -1>>
  ELSE IF Len(e.numbers) = 0
       THEN <<error(e, <<"number stack empty">>)[1], -1>>
       ELSE <<[e EXCEPT !.numbers = SubSeq(@, 1, Len(@) - 1)],
              e.numbers[Len(e.numbers)]>>

op_push(e, op) ==
  IF e.error # 0 THEN <<e, -1>>
  ELSE IF Len(e.ops) > e.ops_max - 1
       THEN <<error(e, <<"operator stack overflow">>)[1], -1>>
       ELSE <<[e EXCEPT !.ops = Append(@, op)], 0>>

op_pop(e) ==
  IF e.error # 0 THEN <<e, NULL>>
  ELSE IF Len(e.ops) = 0
       THEN <<error(e, <<"operator stack empty">>)[1], NULL>>
       ELSE <<[e EXCEPT !.ops = SubSeq(@, 1, Len(@) - 1)],
              e.ops[Len(e.ops)]>>

\* the call of an operator's function: it is logged in e.calls, and a
\* failed assertion in it ends the program (e.abort)
eval_call(e, pop, args) ==
  LET name == ops[pop].eval
      logged == [e EXCEPT !.calls = Append(@, <<name>> \o args)]
  IN  IF eval_asserts(name, args[1], args[Len(args)])
      THEN <<[logged EXCEPT !.abort = TRUE], -1>>
      ELSE number_push(logged,
                       IF Len(args) = 1 THEN eval_unary(name, args[1])
                       ELSE eval_binary(name, args[1], args[2]))

op_eval(e) ==
  LET p == op_pop(e)
      pop == p[2]
      na == number_pop(p[1])
      x == na[2]
      unary == ops[pop].arity = 1
      checked == ops[pop].check # "NULL"
      cu == check_unary(na[1], ops[pop].check, x)
      nb == number_pop(na[1])
      y == nb[2]
      cb == check_binary(nb[1], ops[pop].check, y, x)
  IN  IF pop = NULL THEN <<p[1], -1>>
      ELSE IF ops[pop].eval = "NULL"
      THEN <<error(na[1], <<"syntax error">>)[1], -1>>
      ELSE IF unary /\ checked /\ cu[2] < 0
      THEN <<error(cu[1], <<"unary check failed">>)[1], -1>>
      ELSE IF ~unary /\ checked /\ cb[2] # 0
      THEN <<error(cb[1], <<"binary check failed">>)[1], -1>>
      ELSE eval_call(IF unary THEN (IF checked THEN cu[1] ELSE na[1])
                     ELSE (IF checked THEN cb[1] ELSE nb[1]),
                     pop, IF unary THEN <<x>> ELSE <<y, x>>)

\* the three loops of shunt: while (...) if (op_eval(e) < 0 || e->error)
\* break;
RECURSIVE shunt_rpar_loop(_)
shunt_rpar_loop(e) ==
  LET evaluated(n) ==
        IF n[2] < 0 \/ n[1].error # 0 THEN n[1] ELSE shunt_rpar_loop(n[1])
  IN  IF Len(e.ops) # 0 /\ e.ops[Len(e.ops)] # e.lpar
      THEN evaluated(op_eval(e))
      ELSE e

RECURSIVE shunt_right_as_left(_, _)
shunt_right_as_left(e, op) ==
  LET evaluated(n) ==
        IF n[2] < 0 \/ n[1].error # 0 THEN n[1]
        ELSE shunt_right_as_left(n[1], op)
  IN  IF Len(e.ops) # 0
         /\ ops[op].precedence <= ops[e.ops[Len(e.ops)]].precedence
      THEN evaluated(op_eval(e))
      ELSE e

RECURSIVE shunt_right_loop(_, _)
shunt_right_loop(e, op) ==
  LET evaluated(n) ==
        IF n[2] < 0 \/ n[1].error # 0 THEN n[1]
        ELSE shunt_right_loop(n[1], op)
  IN  IF Len(e.ops) # 0
         /\ ops[op].precedence < ops[e.ops[Len(e.ops)]].precedence
      THEN evaluated(op_eval(e))
      ELSE e

RECURSIVE shunt_left_loop(_, _)
shunt_left_loop(e, op) ==
  LET evaluated(n) ==
        IF n[2] < 0 \/ n[1].error # 0 THEN n[1]
        ELSE shunt_left_loop(n[1], op)
  IN  IF Len(e.ops) # 0
         /\ ops[op].precedence <= ops[e.ops[Len(e.ops)]].precedence
      THEN evaluated(op_eval(e))
      ELSE e

\* <<e, value returned>>; nothing runs after a failed assertion
shunt(e, op) ==
  LET closed(lpar, p) ==
        IF p[2] = NULL \/ p[2] # lpar
        THEN <<error([p[1] EXCEPT !.error = 0],
                     <<"expected \"(\"">>)[1], -1>>
        ELSE <<p[1], 0>>
      rpar(w) == IF w.abort THEN <<w, -1>> ELSE closed(w.lpar, op_pop(w))
      other(w) == IF w.abort THEN <<w, -1>> ELSE op_push(w, op)
  IN  IF op = e.lpar THEN op_push(e, op)
      ELSE IF op = e.rpar THEN rpar(shunt_rpar_loop(e))
      ELSE IF ops[op].assocativity = "ASSOCIATE_RIGHT"
      THEN other(shunt_right_loop(e, op))
      ELSE other(shunt_left_loop(e, op))

\* the index of the first variable of that name, or NULL
variable_lookup(e, name) ==
  LET hit == {i \in 1 .. Len(e.vars) : strcmp(e.vars[i].name, name, 1) = 0}
  IN  IF hit = {} THEN NULL
      ELSE CHOOSE i \in hit : \A j \in hit : i <= j

\* qconv with the radix and the places of qconf; the return code is dropped
numberify(s) == qnconvbdp(s, qconf.base, qconf.dp).q

\* the scans of lex: the index of the first character that is not taken
RECURSIVE lex_space(_, _)
lex_space(s, i) ==
  IF i <= Len(s) /\ isspace(s[i]) THEN lex_space(s, i + 1) ELSE i

RECURSIVE lex_name(_, _, _)
lex_name(s, i, id_count) ==
  IF id_count < QMAX_ID /\ i <= Len(s) /\ (isalnum(s[i]) \/ s[i] = "_")
  THEN lex_name(s, i + 1, id_count + 1)
  ELSE i

RECURSIVE lex_digits(_, _, _, _)
lex_digits(s, i, id_count, dot) ==
  IF id_count < QMAX_ID /\ i <= Len(s)
     /\ (isdigit(s[i]) \/ (s[i] = "." /\ dot = 0))
  THEN lex_digits(s, i + 1, id_count + 1, IF s[i] = "." THEN 1 ELSE dot)
  ELSE i

\* [e, expr |-> where the next token starts, r |-> value returned]; e.id
\* is the token without its trailing zeros
lex(e0, s, expr) ==
  LET e == [e0 EXCEPT !.id = <<>>, !.number = 0, !.op = NULL]
      i == lex_space(s, expr)
      name_end == lex_name(s, i, 0)
      name == SubSeq(s, i, name_end - 1)
      set == i + 1 <= Len(s) /\ ispunct(s[i + 1])
      digits_end == lex_digits(s, i, 0, 0)
      digits == SubSeq(s, i, digits_end - 1)
      word(v, named) ==
        IF v # NULL
        THEN [e |-> [e EXCEPT !.id = name, !.number = e.vars[v].value],
              expr |-> name_end, r |-> LEX_NUMBER]
        ELSE IF named = -1
        THEN [e |-> [e EXCEPT !.id = name, !.abort = TRUE],
              expr |-> name_end, r |-> -1]
        ELSE [e |-> [e EXCEPT !.id = name, !.op = named],
              expr |-> name_end,
              r |-> IF named # NULL THEN LEX_OPERATOR ELSE -1]
      punct(op1, op2) ==
        LET op == IF op2 # NULL THEN op2 ELSE op1
            back == op = op1 /\ set
        IN  IF op1 = -1 \/ op2 = -1
            THEN [e |-> [e EXCEPT !.id = <<s[i]>>, !.abort = TRUE],
                  expr |-> i + 1, r |-> -1]
            ELSE [e |-> [e EXCEPT !.id = IF set /\ ~back
                                         THEN <<s[i], s[i + 1]>>
                                         ELSE <<s[i]>>,
                                  !.op = op],
                  expr |-> IF set /\ ~back THEN i + 2 ELSE i + 1,
                  r |-> IF op1 # NULL \/ op2 # NULL THEN LEX_OPERATOR
                        ELSE -1]
  IN  IF i > Len(s) THEN [e |-> e, expr |-> expr, r |-> LEX_END]
      ELSE IF isalpha(s[i]) \/ s[i] = "_"
      THEN word(variable_lookup(e, name), qop(name))
      ELSE IF ispunct(s[i])
      THEN punct(qop(<<s[i]>>),
                 IF set THEN qop(<<s[i], s[i + 1]>>) ELSE NULL)
      ELSE IF isdigit(s[i])
      THEN [e |-> [e EXCEPT !.id = digits, !.number = numberify(digits)],
            expr |-> digits_end, r |-> LEX_NUMBER]
      ELSE [e |-> e, expr |-> i, r |-> -1]

\* one turn of the for loop of qexpr after its call of lex, whose result
\* is lx: the switch on the token; end is the "goto end"
qexpr_switch(lx, f0) ==
  LET e1 == lx.e
      f1 == [f0 EXCEPT !.expr = lx.expr, !.l = lx.r]
      prefix == f0.firstop # 0
                \/ (f0.previous # NULL /\ f0.previous # e1.rpar)
      invalid == /\ prefix
                 /\ e1.op # e1.minus
                 /\ ops[e1.op].arity # 1
                 /\ e1.op # e1.lpar
      op == IF prefix /\ e1.op = e1.minus THEN e1.negate ELSE e1.op
  IN  IF e1.abort THEN [e |-> e1, frame |-> f1, end |-> FALSE]
      ELSE IF lx.r = LEX_NUMBER
      THEN [e |-> number_push(e1, e1.number)[1],
            frame |-> [f1 EXCEPT !.previous = NULL, !.firstop = 0],
            end |-> FALSE]
      ELSE IF lx.r = LEX_OPERATOR
      THEN IF CONFIG_Q_HIDE_FUNCS # 0 /\ ops[e1.op].hidden # 0
           THEN [e |-> error(e1, <<"unknown operator \"%s\"",
                                   ops[e1.op].name>>)[1],
                 frame |-> f1, end |-> TRUE]
           ELSE IF invalid
           THEN [e |-> error(e1, <<"invalid use of \"%s\"",
                                   ops[e1.op].name>>)[1],
                 frame |-> f1, end |-> TRUE]
           ELSE [e |-> shunt(e1, op)[1],
                 frame |-> [f1 EXCEPT !.previous = op, !.firstop = 0],
                 end |-> FALSE]
      ELSE IF lx.r = LEX_END
      THEN [e |-> e1, frame |-> f1, end |-> FALSE]
      ELSE [e |-> error(e1, <<"invalid symbol: %s", e1.id>>)[1],
            frame |-> [f1 EXCEPT !.l = LEX_END], end |-> FALSE]

\* while (e->ops_count) if (op_eval(e) < 0 || e->error) break;
RECURSIVE qexpr_drain(_)
qexpr_drain(e) ==
  LET evaluated(n) ==
        IF n[2] < 0 \/ n[1].error # 0 THEN n[1] ELSE qexpr_drain(n[1])
  IN  IF Len(e.ops) # 0 THEN evaluated(op_eval(e)) ELSE e

\* what follows the for loop: <<e, value returned>>
qexpr_end(e) ==
  LET drained(w) ==
        IF w.abort THEN <<w, -1>>
        ELSE IF Len(w.numbers) # 1
        THEN <<error(w, <<"invalid expression: %d",
                          Len(w.numbers)>>)[1], -1>>
        ELSE <<w, IF w.error = 0 THEN 0 ELSE -1>>
  IN  drained(qexpr_drain(e))

\* qbase and qplaces assign qconf; the configuration after the calls that
\* were logged from position from on
RECURSIVE qconf_after(_, _, _)
qconf_after(conf, calls, from) ==
  IF from > Len(calls) THEN conf
  ELSE LET call == calls[from]
           nb == qtoi(call[2])
       IN  qconf_after(
             IF call[1] = "qbase" /\ ~(nb < 2 \/ nb > 36)
             THEN [conf EXCEPT !.base = nb]
             ELSE IF call[1] = "qplaces" THEN [conf EXCEPT !.dp = nb]
             ELSE conf,
             calls, from + 1)

\* expr_new: the object after calloc and qexpr_init, with the variables
\* that variable_add gave it
expr_new(max) ==
  [ops |-> <<>>, numbers |-> <<>>,
   ops_max |-> IF max # 0 THEN max ELSE 64,
   numbers_max |-> IF max # 0 THEN max ELSE 64,
   error |-> 0, error_string |-> <<>>, initialized |-> 1,
   lpar |-> qop(<<"(">>), rpar |-> qop(<<")">>),
   negate |-> qop(<<"n", "e", "g", "a", "t", "e">>), minus |-> qop(<<"-">>),
   vars |-> <<[name |-> <<"a">>, value |-> QINT(3)],
              [name |-> <<"b">>, value |-> QINT(4)],
              [name |-> <<"c">>, value |-> -QINT(5)]>>,
   id |-> <<>>, number |-> 0, op |-> NULL,
   calls |-> <<>>, errors |-> <<>>, abort |-> FALSE]

\* the locals of qexpr at its first statement; expr counts from 1
qexpr_frame == [expr |-> 1, firstop |-> 1, previous |-> NULL, l |-> 0]

\* ------------------------------------------------------------------------
\* Shifts and approximate comparison
\* ------------------------------------------------------------------------
\* w << n for 0 <= n <= 64, every bit shifted out at 64
RECURSIVE WShl(_, _)
WShl(w, n) ==
  IF n = 0 THEN w
  ELSE IF n >= QBITS THEN WShl(WShl16(w), n - QBITS)
  ELSE WShl(WShl1(w, 0), n - 1)

\* the counts the builds shift by when the code shifts a 64-bit value by
\* y: y itself below 64; at 64 and above the shift is undefined, and a
\* build either takes the count modulo 64 or shifts every bit out
ShiftCounts(y) == IF y < 64 THEN {y} ELSE {y % 64, 64}

\* qsat((lu_t)a << b), count being one of ShiftCounts(b)
qals(x, count) == qsat(WShl(W64(x), count))

\* QINT(qless(...)): qless has already returned QINT(0) or QINT(1)
qapproxequal(x, y, epsilon) == QINT(qless(qabs(qsub(x, y)), epsilon))

qapproxunequal(x, y, epsilon) ==
  QINT(IF qapproxequal(x, y, epsilon) = 0 THEN 1 ELSE 0)

\* ------------------------------------------------------------------------
\* Square root
\* ------------------------------------------------------------------------
\* qinfo.sqrt2, QMK(0x1, 0x6A09, 16)
sqrt2 == 92681

\* the tolerance of qsqrt: 0x0100 above 100, 0x0010 otherwise
qsqrt_difference(x) == IF qmore(x, QINT(100)) # 0 THEN 256 ELSE 16

\* the first guess
qsqrt_guess(x) == IF qmore(x, sqrt2) # 0 THEN divn(x, 1) ELSE QINT(1)

\* the test of the while loop
qsqrt_while(x, guess, difference) ==
  qmore(qabs(qsub(qmul(guess, guess), x)), difference) # 0

\* the body of the while loop
qsqrt_next(x, guess) == divn(qadd(qdiv(x, guess), guess), 1)

\* ------------------------------------------------------------------------
\* CORDIC
\* ------------------------------------------------------------------------
CORDIC_COORD_HYPERBOLIC_E == -1
CORDIC_COORD_LINEAR_E == 0
CORDIC_COORD_CIRCULAR_E == 1
CORDIC_MODE_VECTOR_E == 0
CORDIC_MODE_ROTATE_E == 1

cordic_circular_inverse_scaling == 39796
cordic_hyperbolic_inverse_scaling == 79136

\* atan(2^0), atan(2^-1), ...
arctans ==
  <<51471, 30385, 16054, 8149, 4090, 2047, 1023, 511, 255, 127, 63, 31, 15,
    7, 3, 1, 0>>

\* atanh(2^-1), atanh(2^-2), ...
arctanhs ==
  <<35999, 16738, 8235, 4101, 2048, 1024, 512, 256, 128, 64, 32, 16, 8, 4,
    2, 1, 0>>

\* 2^0, 2^-1, ...
halfs ==
  <<65536, 32768, 16384, 8192, 4096, 2048, 1024, 512, 256, 128, 64, 32, 16,
    8, 4, 2, 1>>

cordic_lookup(coord) ==
  IF coord = CORDIC_COORD_CIRCULAR_E THEN arctans
  ELSE IF coord = CORDIC_COORD_HYPERBOLIC_E THEN arctanhs
  ELSE halfs

\* (v ^ d) - d: v when d is 0, -v when d is -1
cordic_sign(v, d) == IF d = 0 THEN v ELSE -v

\* the block at the label again: one update of x, y and z.  shifts logs
\* the index i of every update
cordic_update(coord, mode, st) ==
  LET d == IF (IF mode = CORDIC_MODE_ROTATE_E THEN st.z ELSE -st.y) < 0
           THEN -1 ELSE 0
      xs == cordic_sign(IF coord = CORDIC_COORD_LINEAR_E THEN 0
                        ELSE divn(st.y, st.i), d)
      ys == cordic_sign(divn(st.x, IF coord = CORDIC_COORD_LINEAR_E
                                   THEN st.j ELSE st.i), d)
  IN  [st EXCEPT
         !.x = st.x - (IF coord = CORDIC_COORD_HYPERBOLIC_E THEN -xs ELSE xs),
         !.y = st.y + ys,
         !.z = st.z - cordic_sign(cordic_lookup(coord)[st.j + 1], d),
         !.shifts = Append(@, st.i)]

\* if (hyperbolic) ... case 1: if (k++ >= 3) { k = 0; goto again; }
\* st is the state after an update; again tells whether the update is redone
cordic_again(coord, st) ==
  IF coord = CORDIC_COORD_HYPERBOLIC_E
  THEN IF st.k >= 3 THEN [st EXCEPT !.k = 0, !.again = TRUE]
       ELSE [st EXCEPT !.k = @ + 1, !.again = FALSE]
  ELSE [st EXCEPT !.again = FALSE]

\* the body of the for loop, from the label again to the end of the body
RECURSIVE cordic_body(_, _, _)
cordic_body(coord, mode, st) ==
  LET redo(u) == IF u.again THEN cordic_body(coord, mode, u) ELSE u
  IN  redo(cordic_again(coord, cordic_update(coord, mode, st)))

\* for (; j < (unsigned)iterations; i++, j++): at most turns turns of the
\* loop, the first half of them and then the others
RECURSIVE cordic_for(_, _, _, _, _)
cordic_for(coord, mode, iterations, turns, st) ==
  LET step(u) == [u EXCEPT !.i = @ + 1, !.j = @ + 1]
      others(u) ==
        cordic_for(coord, mode, iterations, turns - turns \div 2, u)
  IN  IF ~(st.j < iterations) THEN st
      ELSE IF turns = 1 THEN step(cordic_body(coord, mode, st))
      ELSE others(cordic_for(coord, mode, iterations, turns \div 2, st))

\* [r |-> value returned, x, y, z, shifts]
cordic(coord, mode, iterations, x0, y0, z0) ==
  LET entries == Len(cordic_lookup(coord))
      count == IF iterations > entries \/ iterations < 0 THEN entries
               ELSE iterations
      done(st) == [r |-> count, x |-> st.x, y |-> st.y, z |-> st.z,
                   shifts |-> st.shifts]
  IN  IF mode # CORDIC_MODE_VECTOR_E /\ mode # CORDIC_MODE_ROTATE_E
      THEN [r |-> -1, x |-> x0, y |-> y0, z |-> z0, shifts |-> <<>>]
      ELSE IF coord \notin {CORDIC_COORD_CIRCULAR_E, CORDIC_COORD_LINEAR_E,
                            CORDIC_COORD_HYPERBOLIC_E}
      THEN [r |-> -2, x |-> x0, y |-> y0, z |-> z0, shifts |-> <<>>]
      ELSE done(cordic_for(coord, mode, count, entries,
                           [x |-> x0, y |-> y0, z |-> z0,
                            i |-> IF coord = CORDIC_COORD_CIRCULAR_E THEN 0
                                  ELSE 1,
                            j |-> 0, k |-> 0, again |-> FALSE,
                            shifts |-> <<>>]))

QPI == 205887

\* while (qless(theta, npi)) theta = qadd(theta, dpi);
RECURSIVE qcordic_above(_)
qcordic_above(theta) ==
  LET step(u) == qcordic_above(u)
  IN  IF qless(theta, -QPI) # 0 THEN step(qadd(theta, QPI * 2)) ELSE theta

\* while (qmore(theta, pi)) theta = qadd(theta, dnpi);
RECURSIVE qcordic_below(_)
qcordic_below(theta) ==
  LET step(u) == qcordic_below(u)
  IN  IF qmore(theta, QPI) # 0 THEN step(qadd(theta, -(QPI * 2)))
      ELSE theta

\* [r |-> value returned, sine, cosine]
qcordic(theta0, iterations) ==
  LET hpi == QPI \div 2
      qpi == QPI \div 4
      quadrant(theta, negate) ==
        [theta |-> IF qless(theta, -qpi) # 0 THEN qadd(theta, hpi)
                   ELSE IF qmore(theta, qpi) # 0 THEN qadd(theta, -hpi)
                   ELSE theta,
         negate |-> negate,
         shift |-> IF qless(theta, -qpi) # 0 THEN -1
                   ELSE IF qmore(theta, qpi) # 0 THEN 1 ELSE 0]
      half(theta) ==
        IF qless(theta, -hpi) # 0 THEN quadrant(qadd(theta, QPI), 1)
        ELSE IF qmore(theta, hpi) # 0 THEN quadrant(qadd(theta, -QPI), 1)
        ELSE quadrant(theta, 0)
      unshift(shift, x, y) ==
        IF shift > 0 THEN <<-y, x>>
        ELSE IF shift < 0 THEN <<y, -x>>
        ELSE <<x, y>>
      out(negate, xy) ==
        [r |-> 0,
         cosine |-> IF negate # 0 THEN -xy[1] ELSE xy[1],
         sine |-> IF negate # 0 THEN -xy[2] ELSE xy[2]]
      rotated(range, cd) ==
        IF cd.r < 0 THEN [r |-> -1, cosine |-> 0, sine |-> 0]
        ELSE out(range.negate, unshift(range.shift, cd.x, cd.y))
      reduced(range) ==
        rotated(range,
                cordic(CORDIC_COORD_CIRCULAR_E, CORDIC_MODE_ROTATE_E,
                       iterations, cordic_circular_inverse_scaling, 0,
                       range.theta))
  IN  reduced(half(qcordic_below(qcordic_above(theta0))))

\* assert(r >= 0) holds for every theta
qsincos(theta) == qcordic(theta, -1)

\* [sinh, cosh, shifts]; assert(r >= 0) holds for every a.  shifts is the
\* log of cordic, which the caller does not get
qsincosh(x) ==
  LET out(cd) == [sinh |-> cd.y, cosh |-> cd.x, shifts |-> cd.shifts]
  IN  out(cordic(CORDIC_COORD_HYPERBOLIC_E, CORDIC_MODE_ROTATE_E, -1,
                 cordic_hyperbolic_inverse_scaling, QINT(0), x))

qcordic_exp(e) ==
  LET sum(sh) == qadd(sh.sinh, sh.cosh)
  IN  sum(qsincosh(e))

qcordic_ln(d) ==
  LET twice(cd) == qadd(cd.z, cd.z)
  IN  twice(cordic(CORDIC_COORD_HYPERBOLIC_E, CORDIC_MODE_VECTOR_E, -1,
                   qadd(d, QINT(1)), qsub(d, QINT(1)), QINT(0)))

ln2 == 45426
lmax == 622592

\* for (; qmore(x, lmax); x = divn(x, 1)) logs = qadd(logs, qinfo.ln2);
\* the caller has checked assert(qmore(x, 0))
RECURSIVE qlog_for(_)
qlog_for(st) ==
  LET step(u) == qlog_for(u)
  IN  IF qmore(st.x, lmax) # 0
      THEN step([x |-> divn(st.x, 1), logs |-> qadd(st.logs, ln2)])
      ELSE st

qlog(x) ==
  LET done(st) == qadd(st.logs, qcordic_ln(st.x))
  IN  done(qlog_for([x |-> x, logs |-> 0]))

qsqr(x) == qmul(x, x)

\* if (qless(e, QINT(1))): e goes to qcordic_exp as it is
qexp_direct(e) == qless(e, QINT(1)) # 0

qisodd(q) ==
  IF qisinteger(q) # 0 /\ qhigh(q) % 2 = 1 THEN QINT(1) ELSE QINT(0)

\* implies(x, y): assert(!x || y)
implies(x, y) == x = 0 \/ y # 0

\* ------------------------------------------------------------------------
\* Arguments the calls are made with
\* ------------------------------------------------------------------------
Spread == 1

\* the q_t values within Spread units of x
Near(x) ==
  {x + k : k \in {j \in -Spread .. Spread :
                    /\ (j > 0 => x <= DMAX - j)
                    /\ (j < 0 => x >= DMIN - j)}}

\* limits, +-32767.5, the rows of the rounding table (2.3, 3.8, 5.5), 1, 3
AAnchors ==
  {DMIN, DMIN + QHIGH, -360448, -249037, -150733, -196608, -LIMB, 0,
   LIMB, 196608, 150733, 249037, 360448, DMAX - MULTIPLIER, DMAX}

\* limits, +-3, +-1, 0, 1.5, 100
BAnchors ==
  {DMIN, -196608, -LIMB, 0, LIMB, 98304, 196608, 6553600, DMAX}

AVals == UNION {Near(x) : x \in AAnchors}
BVals == UNION {Near(x) : x \in BAnchors}
CVals == {DMIN, 0, 1}

Bounds == {"qbound_saturate", "qbound_wrap"}

\* ------------------------------------------------------------------------
\* Arithmetic calls
\* ------------------------------------------------------------------------
Init ==
  /\ qconf = [bound |-> "qbound_saturate", dp |-> 4, base |-> 10]
  /\ a \in AVals
  /\ b \in BVals
  /\ c \in CVals
  /\ text = <<>>
  /\ base = 10
  /\ idp = 4
  /\ length = 0
  /\ pc = "idle"
  /\ r = 0
  /\ evaluator = expr_new(0)
  /\ frame = qexpr_frame
  /\ locals = <<>>

\* the caller assigns qconf.bound
SetBound ==
  /\ pc = "idle"
  /\ \E p \in Bounds \ {qconf.bound} : qconf' = [qconf EXCEPT !.bound = p]
  /\ UNCHANGED <<a, b, c, text, base, idp, length, pc, r, evaluator, frame,
               locals>>

Return(name, value) ==
  /\ pc = "idle"
  /\ pc' = name
  /\ r' = value
  /\ UNCHANGED <<qconf, a, b, c, text, base, idp, length, evaluator, frame,
               locals>>

Call_qadd == Return("qadd", qadd(a, b))
Call_qsub == Return("qsub", qsub(a, b))
Call_qmul == Return("qmul", qmul(a, b))
Call_qfma == Return("qfma", qfma(a, b, c))
Call_qdiv == b # 0 /\ Return("qdiv", qdiv(a, b))
Call_qrem == b # 0 /\ Return("qrem", qrem(a, b))
Call_qmod == b # 0 /\ Return("qmod", qmod(a, b))
Call_qfloor == Return("qfloor", qfloor(a))
Call_qceil == Return("qceil", qceil(a))
Call_qtrunc == Return("qtrunc", qtrunc(a))
Call_qround == Return("qround", qround(a))

\* the quotient returned by qdiv is multiplied back by the divisor
Call_qmul_back ==
  /\ pc = "qdiv"
  /\ pc' = "qdiv_qmul"
  /\ r' = qmul(r, b)
  /\ UNCHANGED <<qconf, a, b, c, text, base, idp, length, evaluator, frame,
               locals>>

Next ==
  \/ SetBound
  \/ Call_qadd
  \/ Call_qsub
  \/ Call_qmul
  \/ Call_qfma
  \/ Call_qdiv
  \/ Call_qrem
  \/ Call_qmod
  \/ Call_qfloor
  \/ Call_qceil
  \/ Call_qtrunc
  \/ Call_qround
  \/ Call_qmul_back

Spec == Init /\ [][Next]_vars

\* ------------------------------------------------------------------------
\* Conversion calls
\* ------------------------------------------------------------------------
MaxTextLen == 4
MaxZeros == 17

Alphabet == {"-", ".", "0", "1", "9", "z"}

\* every text of at most MaxTextLen characters of the alphabet
ShortTexts == UNION {[1 .. n -> Alphabet] : n \in 0 .. MaxTextLen}

Zeros(k) == [i \in 1 .. k |-> "0"]

\* 32767, 32768, 32769 and 65536 in decimal
DecimalTexts ==
  {<<"3", "2", "7", "6", "7">>, <<"3", "2", "7", "6", "8">>,
   <<"3", "2", "7", "6", "9">>, <<"6", "5", "5", "3", "6">>}

\* an optional sign, a digit followed by zeros or a decimal number, and an
\* optional fraction
LongTexts ==
  {sign \o num \o frac :
     sign \in {<<>>, <<"-">>},
     num \in {<<d>> \o Zeros(k) : d \in {"1", "9", "z"}, k \in 0 .. MaxZeros}
               \cup DecimalTexts,
     frac \in {<<>>, <<".", "1">>}}

Texts == ShortTexts \cup LongTexts
Radixes == {2, 10, 16, 36}
Places == {-1, 0, 4}

InitConv ==
  /\ qconf = [bound |-> "qbound_saturate", dp |-> 4, base |-> 10]
  /\ a = 0
  /\ b = 0
  /\ c = 0
  /\ text \in Texts
  /\ base \in Radixes
  /\ idp \in Places
  /\ length = Len(text)
  /\ pc = "idle"
  /\ r = 0
  /\ evaluator = expr_new(0)
  /\ frame = qexpr_frame
  /\ locals = <<>>

\* r is the pair of the returned code and the value stored through q
Call_qnconvbdp == Return("qnconvbdp", qnconvbdp(text, base, idp))

NextConv == Call_qnconvbdp

SpecConv == InitConv /\ [][NextConv]_vars

\* ------------------------------------------------------------------------
\* Printing calls, and parsing what was printed
\* ------------------------------------------------------------------------
\* limits, +-1, 0, 0.5, -2.3, the pi of the tests (3.243F hexadecimal)
PrintAnchors == {DMIN, -150733, -LIMB, 0, QHIGH, LIMB, 205887, DMAX}
PrintVals == UNION {Near(x) : x \in PrintAnchors}
PrintRadixes == {2, 3, 8, 10, 16, 36}
PrintPlaces == {-1, 0, 4, 5, 6, 11, 16}
PrintLengths == {2, 8, 40}

InitPrint ==
  /\ qconf = [bound |-> "qbound_saturate", dp |-> 4, base |-> 10]
  /\ a \in PrintVals
  /\ b = 0
  /\ c = 0
  /\ text = <<>>
  /\ base \in PrintRadixes
  /\ idp \in PrintPlaces
  /\ length \in PrintLengths
  /\ pc = "idle"
  /\ r = 0
  /\ evaluator = expr_new(0)
  /\ frame = qexpr_frame
  /\ locals = <<>>

\* a failed assertion ends the program
Call_qsprintbdp ==
  /\ pc = "idle"
  /\ LET out == qsprintbdp(a, length, base, idp)
     IN  /\ pc' = IF out.abort THEN "abort" ELSE "qsprintbdp"
         /\ r' = out
         /\ text' = out.s
  /\ UNCHANGED <<qconf, a, b, c, base, idp, length, evaluator, frame,
               locals>>

\* the printed text is parsed with the same radix and places
Call_qnconvbdp_back ==
  /\ pc = "qsprintbdp"
  /\ r.rc >= 0
  /\ pc' = "qsprintbdp_qnconvbdp"
  /\ r' = qnconvbdp(text, base, idp)
  /\ UNCHANGED <<qconf, a, b, c, text, base, idp, length, evaluator, frame,
               locals>>

NextPrint ==
  \/ Call_qsprintbdp
  \/ Call_qnconvbdp_back

SpecPrint == InitPrint /\ [][NextPrint]_vars

\* ------------------------------------------------------------------------
\* Serialisation calls: a is packed into the buffer, the buffer is unpacked
\* into b
\* ------------------------------------------------------------------------
PackLengths == {0, 3, 4, 8}

InitPack ==
  /\ qconf = [bound |-> "qbound_saturate", dp |-> 4, base |-> 10]
  /\ a \in AVals
  /\ b \in {0, -1}
  /\ c = 0
  /\ length \in PackLengths
  /\ text \in {[i \in 1 .. length |-> v] : v \in {0, BYTE - 1}}
  /\ base = 10
  /\ idp = 4
  /\ pc = "idle"
  /\ r = 0
  /\ evaluator = expr_new(0)
  /\ frame = qexpr_frame
  /\ locals = <<>>

Call_qpack ==
  /\ pc = "idle"
  /\ pc' = "qpack"
  /\ r' = qpack(a, text, length).rc
  /\ text' = qpack(a, text, length).buffer
  /\ UNCHANGED <<qconf, a, b, c, base, idp, length, evaluator, frame,
               locals>>

Call_qunpack ==
  /\ pc \in {"idle", "qpack"}
  /\ pc' = IF pc = "idle" THEN "qunpack" ELSE "qpack_qunpack"
  /\ r' = qunpack(b, text, length).rc
  /\ b' = qunpack(b, text, length).q
  /\ UNCHANGED <<qconf, a, c, text, base, idp, length, evaluator, frame,
               locals>>

NextPack ==
  \/ Call_qpack
  \/ Call_qunpack

SpecPack == InitPack /\ [][NextPack]_vars

\* ------------------------------------------------------------------------
\* Evaluator calls: qexpr on an object from expr_new
\* ------------------------------------------------------------------------
MaxExprLen == 3

ExprAlphabet == {"0", "1", "-", "*", "/", "(", ")"}

ShortExprs == UNION {[1 .. n -> ExprAlphabet] : n \in 0 .. MaxExprLen}

\* expressions of the test table of expr.c and others alike
LongExprs ==
  {<<"2", "+", "3", "*", "4">>,
   <<"(", "2", "+", "3", ")", "*", "4">>,
   <<"2", "+", "(", "3", "*", "4", ")">>,
   <<"(", "2", "+", "(", "3", "*", " ", "4", ")">>,
   <<"2", "+", "(", "3", "*", "4", ")", "(">>,
   <<"a", "+", "(", "b", "*", "5", ")">>,
   <<"1", "0", "0", "/", "2">>,
   <<"2", "*", "*", "3">>,
   <<"1", "-", "-", "-", "1">>,
   <<"-", "1", "-", "-", "-", "1">>,
   <<"1", "/", "0", ")">>,
   <<"1", "%", "0">>,
   <<"0", "%">>,
   <<"1", "+">>,
   <<"1", " ", "2">>,
   <<"1", " ", "2", " ", "+">>,
   <<"1", " ", "n", "e", "g", "a", "t", "e">>,
   <<"2", "*", "b", "a", "s", "e", " ", "1", "0">>,
   <<"b", "a", "s", "e", " ", "1", "0">>,
   <<"2", "-", "1", "-", "1">>,
   <<"1", ".", "5", "*", "2">>,
   <<"1", "<", "=", "2">>,
   <<"o", "d", "d", "?", " ", "3">>,
   <<"x">>}

Exprs == ShortExprs \cup LongExprs

\* the capacities handed to expr_new; 0 asks for its default
ExprMaxima == {0, 1, 2}

InitExpr ==
  /\ qconf = [bound |-> "qbound_saturate", dp |-> 4, base |-> 10]
  /\ a = 0
  /\ b = 0
  /\ c = 0
  /\ text \in Exprs
  /\ base = 10
  /\ idp = 4
  /\ length = Len(text)
  /\ pc = "idle"
  /\ r = 0
  /\ evaluator \in {expr_new(max) : max \in ExprMaxima}
  /\ frame = qexpr_frame
  /\ locals = <<>>

\* qexpr up to its for loop
Call_qexpr ==
  /\ pc = "idle"
  /\ pc' = "qexpr"
  /\ evaluator' = IF evaluator.initialized # 0
                  THEN [evaluator EXCEPT !.error_string = <<>>, !.error = 0,
                                         !.ops = <<>>, !.numbers = <<>>]
                  ELSE evaluator
  /\ frame' = qexpr_frame
  /\ UNCHANGED <<qconf, a, b, c, text, base, idp, length, r, locals>>

\* one turn of the for loop
Step_qexpr ==
  LET turned(sw) ==
        /\ evaluator' = sw.e
        /\ frame' = sw.frame
        /\ qconf' = qconf_after(qconf, sw.e.calls, Len(evaluator.calls) + 1)
        /\ pc' = IF sw.e.abort THEN "abort"
                 ELSE IF sw.end THEN "qexpr_return"
                 ELSE "qexpr"
        /\ r' = IF sw.end /\ ~sw.e.abort
                THEN (IF sw.e.error = 0 THEN 0 ELSE -1)
                ELSE r
  IN  /\ pc = "qexpr"
      /\ frame.l # LEX_END /\ evaluator.error = 0
      /\ turned(qexpr_switch(lex(evaluator, text, frame.expr), frame))
      /\ UNCHANGED <<a, b, c, text, base, idp, length, locals>>

\* the loop has ended: the operators left are evaluated and qexpr returns
Return_qexpr ==
  LET returned(out) ==
        /\ evaluator' = out[1]
        /\ qconf' = qconf_after(qconf, out[1].calls,
                                Len(evaluator.calls) + 1)
        /\ pc' = IF out[1].abort THEN "abort" ELSE "qexpr_return"
        /\ r' = IF out[1].abort THEN r ELSE out[2]
  IN  /\ pc = "qexpr"
      /\ ~(frame.l # LEX_END /\ evaluator.error = 0)
      /\ returned(qexpr_end(evaluator))
      /\ UNCHANGED <<a, b, c, text, base, idp, length, frame, locals>>

NextExpr ==
  \/ Call_qexpr
  \/ Step_qexpr
  \/ Return_qexpr

SpecExpr == InitExpr /\ [][NextExpr]_vars

\* ------------------------------------------------------------------------
\* Shift and comparison calls
\* ------------------------------------------------------------------------
\* the integers N whose Q value is handed to qals
ShiftBy == {0, 1, 2, 15, 16, 31}

\* tolerances: none, one unit, one, the largest
Epsilons == {0, 1, LIMB, DMAX}

InitShift ==
  /\ qconf = [bound |-> "qbound_saturate", dp |-> 4, base |-> 10]
  /\ a \in AVals
  /\ b \in BAnchors \cup {QINT(n) : n \in ShiftBy}
  /\ c \in Epsilons
  /\ text = <<>>
  /\ base = 10
  /\ idp = 4
  /\ length = 0
  /\ pc = "idle"
  /\ r = 0
  /\ evaluator = expr_new(0)
  /\ frame = qexpr_frame
  /\ locals = <<>>

\* qals(a, qint(N))
Call_qals ==
  /\ b \in {QINT(n) : n \in ShiftBy}
  /\ \E count \in ShiftCounts(b) : Return("qals", qals(a, count))

\* the tolerance is c; assert(qeqmore(epsilon, qint(0)))
Call_qapproxequal ==
  c >= 0 /\ Return("qapproxequal", qapproxequal(a, b, c))

Call_qapproxunequal ==
  c >= 0 /\ Return("qapproxunequal", qapproxunequal(a, b, c))

NextShift ==
  \/ SetBound
  \/ Call_qals
  \/ Call_qapproxequal
  \/ Call_qapproxunequal

SpecShift == InitShift /\ [][NextShift]_vars

\* ------------------------------------------------------------------------
\* Square root calls
\* ------------------------------------------------------------------------
\* one unit, the tolerances, 1, sqrt(2), 2, 4, 100, 16384, 29314.9, the
\* largest
SqrtAnchors ==
  {0, 1, 16, 256, LIMB, sqrt2, QINT(2), QINT(4), QINT(100), QINT(16384),
   1921186609, DMAX}

SqrtVals == {x \in UNION {Near(x) : x \in SqrtAnchors} : x >= 0}

InitSqrt ==
  /\ qconf = [bound |-> "qbound_saturate", dp |-> 4, base |-> 10]
  /\ a \in SqrtVals
  /\ b = 0
  /\ c = 0
  /\ text = <<>>
  /\ base = 10
  /\ idp = 4
  /\ length = 0
  /\ pc = "idle"
  /\ r = 0
  /\ evaluator = expr_new(0)
  /\ frame = qexpr_frame
  /\ locals = <<>>

\* assert(qeqmore(x, 0)); zero is returned at once
Call_qsqrt ==
  /\ pc = "idle"
  /\ qeqmore(a, 0) # 0
  /\ IF qequal(QINT(0), a) # 0
     THEN pc' = "qsqrt_return" /\ r' = QINT(0) /\ UNCHANGED locals
     ELSE /\ pc' = "qsqrt"
          /\ locals' = [difference |-> qsqrt_difference(a),
                        guess |-> qsqrt_guess(a), seen |-> {}]
          /\ UNCHANGED r
  /\ UNCHANGED <<qconf, a, b, c, text, base, idp, length, evaluator, frame>>

\* one turn of the while loop; qdiv asserts its divisor.  seen holds the
\* guesses the loop has already replaced
Step_qsqrt ==
  /\ pc = "qsqrt"
  /\ qsqrt_while(a, locals.guess, locals.difference)
  /\ IF locals.guess = 0
     THEN pc' = "abort" /\ UNCHANGED locals
     ELSE /\ locals' = [locals EXCEPT
                          !.guess = qsqrt_next(a, locals.guess),
                          !.seen = @ \cup {locals.guess}]
          /\ UNCHANGED pc
  /\ UNCHANGED <<qconf, a, b, c, text, base, idp, length, r, evaluator,
                 frame>>

Return_qsqrt ==
  /\ pc = "qsqrt"
  /\ ~qsqrt_while(a, locals.guess, locals.difference)
  /\ pc' = "qsqrt_return"
  /\ r' = qabs(locals.guess)
  /\ UNCHANGED <<qconf, a, b, c, text, base, idp, length, evaluator, frame,
                 locals>>

NextSqrt ==
  \/ SetBound
  \/ Call_qsqrt
  \/ Step_qsqrt
  \/ Return_qsqrt

SpecSqrt == InitSqrt /\ [][NextSqrt]_vars

\* ------------------------------------------------------------------------
\* CORDIC, exponential and power calls
\* ------------------------------------------------------------------------
\* angles, exponents and bases; the most negative number is left out, as
\* qpow calls itself with qabs of it for ever
CordicAnchors ==
  {0, 100, 32768, 51426, 51471, QINT(1), 73000, QINT(2), QINT(3), 205887,
   360257, 416710, QINT(10), 1000000}

CordicVals ==
  UNION {{x - 1, x, x + 1, 1 - x, -x, -(x + 1)} : x \in CordicAnchors}

Exponents ==
  {0, 1, 32768, -32768, QINT(1), -QINT(1), QINT(2), -QINT(2), QINT(3)}

InitCordic ==
  /\ qconf = [bound |-> "qbound_saturate", dp |-> 4, base |-> 10]
  /\ a \in CordicVals
  /\ b \in Exponents
  /\ c = 0
  /\ text = <<>>
  /\ base = 10
  /\ idp = 4
  /\ length = 0
  /\ pc = "idle"
  /\ r = 0
  /\ evaluator = expr_new(0)
  /\ frame = qexpr_frame
  /\ locals = <<>>

\* r is [r, sine, cosine]
Call_qsincos == Return("qsincos", qsincos(a))

\* r is [sinh, cosh, shifts]
Call_qsincosh == Return("qsincosh", qsincosh(a))

\* the locals of qpow and of the calls it makes: n and exp of the innermost
\* qpow, pending the calls of qpow that wait for it, the logarithm, e and
\* depth the argument of the innermost qexp and the number of calls of qexp
\* that wait for it, v the value being returned
Frame(caller, n, exp, e) ==
  [caller |-> caller, n |-> n, exp |-> exp, pending |-> <<>>, log |-> 0,
   e |-> e, depth |-> 0, v |-> 0]

Call_qexp ==
  /\ pc = "idle"
  /\ pc' = "qexp"
  /\ locals' = Frame("qexp", 0, 0, a)
  /\ UNCHANGED <<qconf, a, b, c, text, base, idp, length, r, evaluator,
                 frame>>

\* return qsqr(qexp(divn(e, 1))): the nested call
Step_qexp ==
  /\ pc = "qexp"
  /\ ~qexp_direct(locals.e)
  /\ locals' = [locals EXCEPT !.e = divn(@, 1), !.depth = @ + 1]
  /\ UNCHANGED <<qconf, a, b, c, text, base, idp, length, pc, r, evaluator,
                 frame>>

\* return qcordic_exp(e): the call
Call_qcordic_exp ==
  /\ pc = "qexp"
  /\ qexp_direct(locals.e)
  /\ pc' = "qcordic_exp"
  /\ UNCHANGED <<qconf, a, b, c, text, base, idp, length, r, evaluator,
                 frame, locals>>

Return_qcordic_exp ==
  /\ pc = "qcordic_exp"
  /\ pc' = "qsqr"
  /\ locals' = [locals EXCEPT !.v = qcordic_exp(locals.e)]
  /\ UNCHANGED <<qconf, a, b, c, text, base, idp, length, r, evaluator,
                 frame>>

\* a call of qexp that waited squares what the nested call returned
Step_qsqr ==
  /\ pc = "qsqr"
  /\ locals.depth > 0
  /\ locals' = [locals EXCEPT !.v = qsqr(@), !.depth = @ - 1]
  /\ UNCHANGED <<qconf, a, b, c, text, base, idp, length, pc, r, evaluator,
                 frame>>

\* the outermost qexp returns, to the caller or to qpow
Return_qexp ==
  /\ pc = "qsqr"
  /\ locals.depth = 0
  /\ IF locals.caller = "qexp"
     THEN pc' = "qexp_return" /\ r' = locals.v
     ELSE pc' = "qpow_back" /\ UNCHANGED r
  /\ UNCHANGED <<qconf, a, b, c, text, base, idp, length, evaluator, frame,
                 locals>>

Call_qpow ==
  /\ pc = "idle"
  /\ pc' = "qpow"
  /\ locals' = Frame("qpow", a, b, 0)
  /\ UNCHANGED <<qconf, a, b, c, text, base, idp, length, r, evaluator,
                 frame>>

\* a call of qpow, down to the call it makes: the two implies, the early
\* return, qpow(qabs(n), exp), qpow(n, qabs(exp)) or qlog(n)
Step_qpow ==
  /\ pc = "qpow"
  /\ IF \/ ~implies(qisnegative(locals.n), qisinteger(locals.exp))
        \/ ~implies(qequal(locals.n, QINT(0)), qunequal(locals.exp, QINT(0)))
     THEN pc' = "abort" /\ UNCHANGED locals
     ELSE IF qequal(QINT(0), locals.n) # 0
     THEN pc' = "qpow_back" /\ locals' = [locals EXCEPT !.v = QINT(1)]
     ELSE IF qisnegative(locals.n) # 0
     THEN /\ locals' = [locals EXCEPT
                          !.n = qabs(@),
                          !.pending = Append(@, [call |-> "qisodd",
                                                 exp |-> locals.exp])]
          /\ UNCHANGED pc
     ELSE IF qisnegative(locals.exp) # 0
     THEN /\ locals' = [locals EXCEPT
                          !.exp = qabs(@),
                          !.pending = Append(@, [call |-> "qdiv",
                                                 exp |-> locals.exp])]
          /\ UNCHANGED pc
     ELSE pc' = "qlog" /\ UNCHANGED locals
  /\ UNCHANGED <<qconf, a, b, c, text, base, idp, length, r, evaluator,
                 frame>>

\* qlog(n); its assert(qmore(x, 0)) holds here
Step_qlog ==
  /\ pc = "qlog"
  /\ pc' = "multiply"
  /\ locals' = [locals EXCEPT !.log = qlog(locals.n)]
  /\ UNCHANGED <<qconf, a, b, c, text, base, idp, length, r, evaluator,
                 frame>>

\* qexp(multiply(qlog(n), exp)): the product is cut to a q_t
Step_multiply ==
  /\ pc = "multiply"
  /\ pc' = "qexp"
  /\ locals' = [locals EXCEPT
                  !.e = WToQ(multiply(locals.log, locals.exp)),
                  !.depth = 0]
  /\ UNCHANGED <<qconf, a, b, c, text, base, idp, length, r, evaluator,
                 frame>>

\* a call of qpow that waited: qisodd(exp) ? qnegate(abspow) : abspow, or
\* qdiv(QINT(1), ...), which asserts its divisor
Step_qpow_return ==
  /\ pc = "qpow_back"
  /\ locals.pending # <<>>
  /\ LET waiting == locals.pending[Len(locals.pending)]
         others == SubSeq(locals.pending, 1, Len(locals.pending) - 1)
     IN  IF waiting.call = "qdiv" /\ locals.v = 0
         THEN pc' = "abort" /\ UNCHANGED locals
         ELSE /\ locals' = [locals EXCEPT
                              !.pending = others,
                              !.v = IF waiting.call = "qdiv"
                                    THEN qdiv(QINT(1), locals.v)
                                    ELSE IF qisodd(waiting.exp) # 0
                                    THEN qnegate(locals.v)
                                    ELSE locals.v]
              /\ UNCHANGED pc
  /\ UNCHANGED <<qconf, a, b, c, text, base, idp, length, r, evaluator,
                 frame>>

Return_qpow ==
  /\ pc = "qpow_back"
  /\ locals.pending = <<>>
  /\ pc' = "qpow_return"
  /\ r' = locals.v
  /\ UNCHANGED <<qconf, a, b, c, text, base, idp, length, evaluator, frame,
                 locals>>

NextCordic ==
  \/ SetBound
  \/ Call_qsincos
  \/ Call_qsincosh
  \/ Call_qexp
  \/ Step_qexp
  \/ Call_qcordic_exp
  \/ Return_qcordic_exp
  \/ Step_qsqr
  \/ Return_qexp
  \/ Call_qpow
  \/ Step_qpow
  \/ Step_qlog
  \/ Step_multiply
  \/ Step_qpow_return
  \/ Return_qpow

SpecCordic == InitCordic /\ [][NextCordic]_vars

\* ------------------------------------------------------------------------
\* Operator lookup calls
\* ------------------------------------------------------------------------
\* every name of the table, and names that are not in it: the empty name
\* and a space, which sort before the first entry, names between entries,
\* and names after the last one
OpNames ==
  {ops[i].name : i \in 1 .. Len(ops)}
    \cup {<<>>, <<" ">>, <<" ", "!">>, <<"!", "!">>, <<"0">>, <<"A">>,
          <<"a">>, <<"o", "d", "d">>, <<"o", "d", "d", "?", "?">>,
          <<"s", "i">>, <<"z">>, <<"}">>, <<"~", "~">>}

InitOp ==
  /\ qconf = [bound |-> "qbound_saturate", dp |-> 4, base |-> 10]
  /\ a = 0
  /\ b = 0
  /\ c = 0
  /\ text \in OpNames
  /\ base = 10
  /\ idp = 4
  /\ length = 0
  /\ pc = "idle"
  /\ r = 0
  /\ evaluator = expr_new(0)
  /\ frame = qexpr_frame
  /\ locals = <<>>

\* qop(text); assert(m < length) ends the process when it fails
Call_qop ==
  /\ pc = "idle"
  /\ IF qop(text) = -1
     THEN pc' = "abort" /\ UNCHANGED r
     ELSE pc' = "qop" /\ r' = qop(text)
  /\ UNCHANGED <<qconf, a, b, c, text, base, idp, length, evaluator, frame,
                 locals>>

NextOp ==
  \/ SetBound
  \/ Call_qop

SpecOp == InitOp /\ [][NextOp]_vars

\* ------------------------------------------------------------------------
\* Reference values the properties are stated with
\* ------------------------------------------------------------------------
Saturating == qconf.bound = "qbound_saturate"

\* w >> 16 as an arithmetic shift of a signed 64-bit value
WAsr16(w) == <<w[2], w[3], w[4], IF WIsNeg(w) THEN QMASK ELSE 0>>

\* DMIN <= w <= DMAX
InRange(w) == ~WMore(w, W64(DMAX)) /\ ~WLess(w, W64(DMIN))

\* the exact sum x + y clamped to DMIN..DMAX
ClampedSum(x, y) ==
  IF y > 0 /\ x > DMAX - y THEN DMAX
  ELSE IF y < 0 /\ x < DMIN - y THEN DMIN
  ELSE x + y

\* -|x|, which every q_t has
NAbs(x) == IF x > 0 THEN -x ELSE x

\* |x - y| <= 1
Within1(x, y) ==
  \/ x = y
  \/ y < DMAX /\ x = y + 1
  \/ y > DMIN /\ x = y - 1

\* v is zero or has the sign of w
SignOf(v, w) == v = 0 \/ ((v < 0) <=> (w < 0))

\* x * 2^16 / y rounded to the nearest integer, halves away from zero
RoundedQuotient(x, y) ==
  LET ax == WAbs(W64(x))
      ay == WAbs(W64(y))
      m  == WUDivMod(WAdd(WShl1(WShl16(ax), 0), ay), WShl1(ay, 0))[1]
  IN  IF (x < 0) # (y < 0) THEN WNeg(m) ELSE m

\* |x / y| < qinfo.max, as values: |x| * 2^16 < DMAX * |y|
QuotientBelowMax(x, y) ==
  WULess(WShl16(WAbs(W64(x))), WMul(W64(DMAX), WAbs(W64(y))))

\* the integers (not scaled) that floor, ceil, trunc and round should give
FloorInt(q) == q \div LIMB
CeilInt(q) == (q \div LIMB) + (IF q % LIMB # 0 THEN 1 ELSE 0)
TruncInt(q) == IF q >= 0 THEN FloorInt(q) ELSE CeilInt(q)
RoundInt(q) ==
  IF q >= 0 THEN (q \div LIMB) + (IF q % LIMB >= QHIGH THEN 1 ELSE 0)
  ELSE (q \div LIMB) + (IF q % LIMB > QHIGH THEN 1 ELSE 0)

\* the integer n is a Q value
Representable(n) == -QHIGH <= n /\ n <= QHIGH - 1

\* rows of the rounding table: <<input, round, floor, ceil, trunc>>
RoundingTable ==
  {<<150733, 2, 2, 3, 2>>, <<249037, 4, 3, 4, 3>>, <<360448, 6, 5, 6, 5>>,
   <<-150733, -2, -3, -2, -2>>, <<-249037, -4, -4, -3, -3>>,
   <<-360448, -6, -6, -5, -5>>}

\* ------------------------------------------------------------------------
\* Properties
\* ------------------------------------------------------------------------

\* C1: under the saturating policy qadd(a, b) is the exact sum a + b
\* clamped to [-2^31, 2^31 - 1].
C1_AddSaturates ==
  pc = "qadd" /\ Saturating => r = ClampedSum(a, b)

C1_Witness ==
  pc = "qadd" /\ Saturating /\ b > 0 /\ a > DMAX - b /\ r = DMAX

\* C2: qmul(a, b) is (a*b + 2^15) arithmetically shifted right by 16 and
\* then passed through the overflow policy (qinfo.min below -2^31 and
\* qinfo.max above 2^31 - 1 under saturation).
C2_MulShiftThenPolicy ==
  pc = "qmul" =>
    r = qsat(WAsr16(WAdd(WMul(W64(a), W64(b)), <<QHIGH, 0, 0, 0>>)))

\* C3: qdiv(a, b) applies the overflow policy to its 64-bit quotient, it
\* never returns the low 32 bits of an out-of-range quotient.
C3_DivAppliesPolicy ==
  pc = "qdiv" => r = qsat(qdiv_quotient(a, b))

\* C4: when the quotient is representable, qdiv(a, b) is a * 2^16 / b
\* rounded to nearest with halves away from zero, for every sign
\* combination and for odd as well as even b.
C4_DivRoundsHalfAway ==
  pc = "qdiv" /\ InRange(RoundedQuotient(a, b)) =>
    W64(r) = RoundedQuotient(a, b)

\* C5: qfma(a, b, c) is ((a*b + 2^15) >> 16) + c in 64 bits, passed through
\* the overflow policy once.
C5_FmaSingleSaturation ==
  pc = "qfma" =>
    r = qsat(WAdd(WAsr16(WAdd(WMul(W64(a), W64(b)), <<QHIGH, 0, 0, 0>>)),
                  W64(c)))

\* C6: qrem(a, b) is zero or has the sign of a, qmod(a, b) is zero or has
\* the sign of b, and both are smaller than b in magnitude.
C6_RemModSignAndSize ==
  /\ pc = "qrem" => SignOf(r, a) /\ NAbs(r) > NAbs(b)
  /\ pc = "qmod" => SignOf(r, b) /\ NAbs(r) > NAbs(b)

\* C7 (as stated): whenever |a / b| is below the maximum Q value,
\* qmul(qdiv(a, b), b) is within one unit of a.
C7_MulDivWithinUlp ==
  pc = "qdiv_qmul" /\ QuotientBelowMax(a, b) => Within1(r, a)

\* C7 (amended): whenever |a / b| is below the maximum Q value and
\* |b| <= 1.0, qmul(qdiv(a, b), b) is within one unit of a.
C7_MulDivWithinUlpSmallDivisor ==
  pc = "qdiv_qmul" /\ QuotientBelowMax(a, b) /\ NAbs(b) >= -LIMB =>
    Within1(r, a)

C7_Witness ==
  /\ pc = "qdiv_qmul" /\ QuotientBelowMax(a, b) /\ NAbs(b) >= -LIMB
  /\ a < -LIMB /\ b < -1 /\ Within1(r, a)

\* C8: when the rounded value is representable, qround(q) is the integer
\* nearest to q, halves rounded away from zero.
C8_RoundHalfAway ==
  pc = "qround" /\ Representable(RoundInt(a)) => r = QINT(RoundInt(a))

\* C9: qfloor(q) is the greatest integer <= q, qceil(q) the least integer
\* >= q and qtrunc(q) the integer part toward zero, whenever that integer
\* is representable, and the rounding table is reproduced exactly.
C9_FloorCeilTrunc ==
  /\ pc = "qfloor" /\ Representable(FloorInt(a)) => r = QINT(FloorInt(a))
  /\ pc = "qceil" /\ Representable(CeilInt(a)) => r = QINT(CeilInt(a))
  /\ pc = "qtrunc" /\ Representable(TruncInt(a)) => r = QINT(TruncInt(a))
  /\ \A row \in RoundingTable :
       a = row[1] =>
         /\ pc = "qfloor" => r = QINT(row[3])
         /\ pc = "qceil" => r = QINT(row[4])
         /\ pc = "qtrunc" => r = QINT(row[5])

C9_Witness ==
  pc = "qtrunc" /\ a = -150733 /\ r = QINT(-2)

\* the characters of s from position i on that are digits of the radix,
\* up to the first that is not
RECURSIVE DigitRun(_, _, _)
DigitRun(s, radix, i) ==
  IF i > Len(s) \/ extract(s[i], radix) < 0 THEN <<>>
  ELSE <<extract(s[i], radix)>> \o DigitRun(s, radix, i + 1)

ValueCap == 2 ^ 20

\* the number the digits denote, or ValueCap when it is larger
RECURSIVE DigitsValue(_, _, _)
DigitsValue(ds, radix, acc) ==
  IF ds = <<>> THEN acc
  ELSE DigitsValue(Tail(ds), radix,
                   IF acc * radix + Head(ds) > ValueCap THEN ValueCap
                   ELSE acc * radix + Head(ds))

HasSign(s) == Len(s) >= 1 /\ s[1] = "-"
IntegerDigits(s, radix) == DigitRun(s, radix, IF HasSign(s) THEN 2 ELSE 1)
FractionStart(s, radix) ==
  (IF HasSign(s) THEN 2 ELSE 1) + Len(IntegerDigits(s, radix))

\* [-]digits[.digits] in the radix
WellFormed(s, radix) ==
  /\ IntegerDigits(s, radix) # <<>>
  /\ \/ FractionStart(s, radix) > Len(s)
     \/ /\ s[FractionStart(s, radix)] = "."
        /\ FractionStart(s, radix) < Len(s)
        /\ \A i \in FractionStart(s, radix) + 1 .. Len(s) :
             extract(s[i], radix) >= 0

\* the integer part is above 32767, or below -32768 after a '-'
IntegerPartOutOfRange(s, radix) ==
  DigitsValue(IntegerDigits(s, radix), radix, 0)
    > (IF HasSign(s) THEN QHIGH ELSE QHIGH - 1)

\* C10: when the integer part of a well-formed text denotes a value outside
\* the Q range, qnconvbdp returns a negative code and stores qinfo.max, or
\* qinfo.min for a text with a leading '-'.
C10_ParseOverflowSaturates ==
  pc = "qnconvbdp" /\ WellFormed(text, base)
    /\ IntegerPartOutOfRange(text, base) =>
      /\ r.rc < 0
      /\ r.q = IF HasSign(text) THEN DMIN ELSE DMAX

\* the least k with radix^k >= 2^16
RECURSIVE CeilLog(_, _, _)
CeilLog(radix, k, v) == IF v >= LIMB THEN k ELSE CeilLog(radix, k + 1, v * radix)

\* C11: parsing the text qsprintbdp prints for q, with the same radix and
\* with places of at least ceil(log_radix(2^16)) for both, returns q.
C11_PrintParseRoundTrip ==
  pc = "qsprintbdp_qnconvbdp" /\ idp >= CeilLog(base, 0, 1) =>
    r.rc = 0 /\ r.q = a

\* s without a leading '-'
Unsigned(s) == IF HasSign(s) THEN Tail(s) ELSE s

\* an optional '-', then digits of the radix and at most one '.', with at
\* least one digit
AcceptedForm(s, radix) ==
  LET u == Unsigned(s)
      dots == {i \in 1 .. Len(u) : u[i] = "."}
      digits == {i \in 1 .. Len(u) : extract(u[i], radix) >= 0}
  IN  /\ dots \cup digits = 1 .. Len(u)
      /\ Cardinality(dots) <= 1
      /\ digits # {}

\* the codes returned for an empty text, a bad separator, a bad fractional
\* digit and an integer part with too many digits
ErrorCodes(radix, places_arg) ==
  <<qnconvbdp(<<>>, radix, places_arg).rc,
    qnconvbdp(<<"1", "+">>, radix, places_arg).rc,
    qnconvbdp(<<"1", ".", "+">>, radix, places_arg).rc,
    qnconvbdp(<<"1">> \o Zeros(MaxZeros), radix, places_arg).rc>>

\* C12: qnconvbdp returns 0 only for an optional '-', digits of the radix
\* and at most one '.', with at least one digit; every other text gets a
\* negative code, and the codes of the four kinds of failure differ.
C12_ParseAcceptsOnlyNumbers ==
  pc = "qnconvbdp" =>
    /\ r.rc = 0 => AcceptedForm(text, base)
    /\ ~AcceptedForm(text, base) => r.rc < 0
    /\ LET codes == {ErrorCodes(base, idp)[i] : i \in 1 .. 4}
       IN  Cardinality(codes) = 4 /\ \A code \in codes : code < 0

\* byte i (0 the least significant) of the 32-bit pattern of q
ByteOf(q, i) ==
  IF i < 2 THEN (U32(q)[1] \div (BYTE ^ i)) % BYTE
  ELSE (U32(q)[2] \div (BYTE ^ (i - 2))) % BYTE

RECURSIVE TokensFrom(_, _)
TokensFrom(s, from) ==
  LET token(lx) == [kind |-> lx.r, number |-> lx.e.number, op |-> lx.e.op]
      rest(lx) ==
        IF lx.r = LEX_END THEN <<>>
        ELSE IF lx.r = -1 THEN <<token(lx)>>
        ELSE <<token(lx)>> \o TokensFrom(s, lx.expr)
  IN  rest(lex(expr_new(0), s, from))

Tokens(s) == TokensFrom(s, 1)

IsNumber(token) == token.kind = LEX_NUMBER
IsOperator(token) == token.kind = LEX_OPERATOR
IsLpar(token) == IsOperator(token) /\ ops[token.op].name = <<"(">>
IsRpar(token) == IsOperator(token) /\ ops[token.op].name = <<")">>
IsMinus(token) == IsOperator(token) /\ ops[token.op].name = <<"-">>
IsUnaryOp(token) ==
  IsOperator(token) /\ (IsMinus(token) \/ ops[token.op].arity = 1)
IsBinaryOp(token) == IsOperator(token) /\ ops[token.op].arity = 2

\* infix grammar from token i on, inside depth open parentheses, operand
\* telling whether an operand has just ended:
\*   expr = term (binary-op term)*
\*   term = number | variable | unary-op term | "(" expr ")"
RECURSIVE InfixFrom(_, _, _, _)
InfixFrom(toks, i, depth, operand) ==
  IF i > Len(toks) THEN operand /\ depth = 0
  ELSE IF IsNumber(toks[i])
       THEN ~operand /\ InfixFrom(toks, i + 1, depth, TRUE)
  ELSE IF ~IsOperator(toks[i]) THEN FALSE
  ELSE IF ~operand
       THEN IF IsLpar(toks[i]) THEN InfixFrom(toks, i + 1, depth + 1, FALSE)
            ELSE IsUnaryOp(toks[i]) /\ InfixFrom(toks, i + 1, depth, FALSE)
  ELSE IF IsRpar(toks[i])
       THEN depth > 0 /\ InfixFrom(toks, i + 1, depth - 1, TRUE)
  ELSE IsBinaryOp(toks[i]) /\ InfixFrom(toks, i + 1, depth, FALSE)

InfixForm(s) == InfixFrom(Tokens(s), 1, 0, FALSE)

\* what the check of an operator demands of its operands (y the only or
\* the right one)
CheckHolds(check, y) ==
  CASE check = "NULL" -> TRUE
    [] check = "check_div0" -> y # 0
    [] check = "check_nlz" -> y >= 0
    [] check = "check_nlez" -> y > 0
    [] check = "check_nlo" -> y >= QINT(1)
    [] check = "check_alo" -> NAbs(y) <= QINT(1)

\* parentheses open before token i of toks[lo .. hi]
RECURSIVE DepthAt(_, _, _)
DepthAt(toks, lo, i) ==
  IF i <= lo THEN 0
  ELSE DepthAt(toks, lo, i - 1)
       + (IF IsLpar(toks[i - 1]) THEN 1
          ELSE IF IsRpar(toks[i - 1]) THEN -1 ELSE 0)

\* the binary operators of toks[lo .. hi] outside its parentheses
TopLevel(toks, lo, hi) ==
  {i \in lo + 1 .. hi :
     /\ IsBinaryOp(toks[i])
     /\ IsNumber(toks[i - 1]) \/ IsRpar(toks[i - 1])
     /\ DepthAt(toks, lo, i) = 0}

Precedence(token) == ops[token.op].precedence
LeftAssociative(token) == ops[token.op].assocativity = "ASSOCIATE_LEFT"

\* one of the operators of top that bind least
Least(toks, top) ==
  CHOOSE i \in top : \A j \in top : Precedence(toks[i]) <= Precedence(toks[j])

\* where the expression splits: the last of the operators that bind as
\* little as least does when they are left-associative, the first otherwise
SplitAt(toks, top, least) ==
  CHOOSE i \in top :
    /\ Precedence(toks[i]) = Precedence(toks[least])
    /\ \A j \in top :
         Precedence(toks[j]) = Precedence(toks[least]) =>
           IF LeftAssociative(toks[least]) THEN j <= i ELSE i <= j

\* the operator a token in operand position stands for
PrefixOperator(token) ==
  IF IsMinus(token) THEN qop(<<"n", "e", "g", "a", "t", "e">>) ELSE token.op

\* the leading unary operator takes the whole rest
TakesRest(toks, lo, top, unary) ==
  /\ IsUnaryOp(toks[lo])
  /\ \/ top = {}
     \/ ops[unary].precedence < Precedence(toks[Least(toks, top)])
     \/ /\ ops[unary].precedence = Precedence(toks[Least(toks, top)])
        /\ ~LeftAssociative(toks[Least(toks, top)])

UnaryValue(unary, rest) ==
  IF rest.ok /\ CheckHolds(ops[unary].check, rest.v)
  THEN [ok |-> TRUE, v |-> eval_unary(ops[unary].eval, rest.v)]
  ELSE [ok |-> FALSE, v |-> 0]

BinaryValue(op, lhs, rhs) ==
  IF lhs.ok /\ rhs.ok /\ CheckHolds(ops[op].check, rhs.v)
  THEN [ok |-> TRUE, v |-> eval_binary(ops[op].eval, lhs.v, rhs.v)]
  ELSE [ok |-> FALSE, v |-> 0]

\* the value of the infix expression toks[lo .. hi] by precedence: it is
\* split at the binary operator outside parentheses that binds least (the
\* last of them when left-associative, the first when right-associative);
\* a leading unary operator that binds less than all of them takes the
\* whole rest.  [ok |-> every check held, v |-> the value]
RECURSIVE InfixValue(_, _, _)
RECURSIVE InfixSplit(_, _, _, _)
RECURSIVE InfixParts(_, _, _, _, _)

InfixValue(toks, lo, hi) ==
  IF IsNumber(toks[lo]) /\ lo = hi
  THEN [ok |-> TRUE, v |-> toks[lo].number]
  ELSE InfixParts(toks, lo, hi, TopLevel(toks, lo, hi),
                  PrefixOperator(toks[lo]))

InfixParts(toks, lo, hi, top, unary) ==
  IF TakesRest(toks, lo, top, unary)
  THEN UnaryValue(unary, InfixValue(toks, lo + 1, hi))
  ELSE IF top # {}
  THEN InfixSplit(toks, lo, hi, SplitAt(toks, top, Least(toks, top)))
  ELSE InfixValue(toks, lo + 1, hi - 1)

InfixSplit(toks, lo, hi, split) ==
  BinaryValue(toks[split].op, InfixValue(toks, lo, split - 1),
              InfixValue(toks, split + 1, hi))

\* qexpr has returned, or the program has ended in a failed assertion
Ended == pc \in {"qexpr_return", "abort"}

\* the number stack holds the value alone after a return of 0
ReturnsValue(value) ==
  /\ pc = "qexpr_return"
  /\ r = 0
  /\ evaluator.numbers = <<value.v>>

ByPrecedence(toks, wellformed, value) ==
  /\ Ended
  /\ wellformed
  /\ value.ok
  /\ evaluator.ops_max > Len(text)
  => ReturnsValue(value)

WhenInfix(toks, wellformed) ==
  ByPrecedence(toks, wellformed,
               IF wellformed THEN InfixValue(toks, 1, Len(toks))
               ELSE [ok |-> FALSE, v |-> 0])

\* C14: for a well-formed infix expression whose checks all hold, on stacks
\* that have room for every token, qexpr returns 0 and the number stack
\* holds one number, the value by precedence and associativity with a minus
\* in operand position read as negation (2+3*4 = 14, (2+3)*4 = 20,
\* 1--1 = 2, 1---1 = 0).
C14_InfixByPrecedence ==
  LET infix(toks) == WhenInfix(toks, InfixFrom(toks, 1, 0, FALSE))
  IN  infix(Tokens(text))

\* the check that the table gives the operators of a function
CheckOfFunction(fn) ==
  LET row == CHOOSE i \in 1 .. Len(ops) : ops[i].eval = fn
  IN  ops[row].check

\* C15: no function of an operator with a check is ever called on operands
\* that violate the check, whatever the stacks hold; "1/0" and "1%0" return
\* -1 with the message "division by zero".
C15_ChecksGuardCalls ==
  /\ \A i \in 1 .. Len(evaluator.calls) :
       LET call == evaluator.calls[i]
       IN  CheckHolds(CheckOfFunction(call[1]), call[Len(call)])
  /\ pc = "qexpr_return"
     /\ text \in {<<"1", "/", "0">>, <<"1", "%", "0">>}
     /\ evaluator.ops_max > Len(text)
     => /\ r = -1
        /\ evaluator.error_string = <<"division by zero">>
        /\ evaluator.calls = <<>>

\* C16: within one call of qexpr, once an error has been recorded the
\* error flag stays set and the message kept is that of the first error:
\* at every step after the first call of error() that recorded a message
\* (e.errors), the flag is set and error_string is that first message.
C16_FirstErrorKept ==
  pc # "idle" /\ evaluator.errors # <<>> =>
    /\ evaluator.error # 0
    /\ evaluator.error_string = evaluator.errors[1]
    /\ Len(evaluator.errors) = 1

\* C17: at every step of qexpr, for every input and every capacity of at
\* least 1, 0 <= ops_count <= ops_max and 0 <= numbers_count <= numbers_max
\* (so no element outside the arrays is written or read); a push onto a
\* full stack and a pop from an empty one leave the count as it is and set
\* the error flag.
C17_StacksBounded ==
  LET e == evaluator
      clear == [e EXCEPT !.error = 0]
  IN  /\ e.ops_max >= 1 /\ e.numbers_max >= 1
      /\ 0 <= Len(e.ops) /\ Len(e.ops) <= e.ops_max
      /\ 0 <= Len(e.numbers) /\ Len(e.numbers) <= e.numbers_max
      /\ \A st \in {e, clear} :
           /\ Len(st.numbers) = st.numbers_max =>
                /\ number_push(st, QINT(1))[1].numbers = st.numbers
                /\ number_push(st, QINT(1))[1].error # 0
                /\ number_push(st, QINT(1))[2] = -1
           /\ Len(st.ops) = st.ops_max =>
                /\ op_push(st, st.minus)[1].ops = st.ops
                /\ op_push(st, st.minus)[1].error # 0
                /\ op_push(st, st.minus)[2] = -1
           /\ Len(st.numbers) = 0 =>
                /\ number_pop(st)[1].numbers = <<>>
                /\ number_pop(st)[1].error # 0
           /\ Len(st.ops) = 0 =>
                /\ op_pop(st)[1].ops = <<>>
                /\ op_pop(st)[1].error # 0
                /\ op_pop(st)[2] = NULL

\* a push found the number stack full: its count is still the capacity
C17_Witness ==
  /\ pc = "qexpr_return"
  /\ evaluator.errors = <<<<"number stack overflow">>>>
  /\ Len(evaluator.numbers) = evaluator.numbers_max
  /\ evaluator.error # 0

\* parentheses open after the characters from i on, starting from depth;
\* -1 once a ')' has come with no '(' open
RECURSIVE ParenDepth(_, _, _)
ParenDepth(s, i, depth) ==
  IF depth < 0 THEN -1
  ELSE IF i > Len(s) THEN depth
  ELSE ParenDepth(s, i + 1,
                  depth + (IF s[i] = "(" THEN 1
                           ELSE IF s[i] = ")" THEN -1 ELSE 0))

Unbalanced(s) == ParenDepth(s, 1, 0) # 0

\* C18: for every input with unbalanced parentheses (a ')' with no '(' to
\* match, or a '(' that is never closed) qexpr returns -1 with the error
\* flag set.
C18_UnbalancedRejected ==
  Ended /\ Unbalanced(text) =>
    pc = "qexpr_return" /\ r = -1 /\ evaluator.error # 0

\* C19: qexpr returns 0 only for well-formed infix expressions; the empty
\* input, a binary operator that lacks an operand ("2**3", "1+"), two
\* operands with no operator between them and a binary operator after both
\* of its operands return -1.
C19_OnlyInfixAccepted ==
  /\ pc = "qexpr_return" /\ r = 0 => InfixForm(text)
  /\ pc = "qexpr_return"
     /\ text \in {<<>>, <<"2", "*", "*", "3">>, <<"1", "+">>,
                  <<"1", " ", "2">>, <<"1", " ", "2", " ", "+">>}
     => r = -1

NegateChain == <<"-", "1", "-", "-", "-", "1">>

\* C20 as stated: evaluating "-1---1" succeeds and yields the Q value of 0.
C20_NegateChainIsZero ==
  Ended /\ text = NegateChain /\ evaluator.ops_max > Len(text) =>
    pc = "qexpr_return" /\ r = 0 /\ evaluator.numbers = <<QINT(0)>>

\* C20: on stacks with room for its tokens, evaluating "-1---1" succeeds
\* and yields the Q value of -2: (-1) - (-(-1)).
C20_NegateChainIsMinusTwo ==
  Ended /\ text = NegateChain /\ evaluator.ops_max > Len(text) =>
    pc = "qexpr_return" /\ r = 0 /\ evaluator.numbers = <<-QINT(2)>>

C20_Witness ==
  /\ pc = "qexpr_return" /\ text = NegateChain /\ r = 0
  /\ evaluator.numbers = <<-QINT(2)>>
  /\ evaluator.calls = <<<<"qnegate", QINT(1)>>, <<"qnegate", QINT(1)>>,
                         <<"qnegate", -QINT(1)>>,
                         <<"qsub", -QINT(1), QINT(1)>>>>


\* 2^n as a 64-bit word, 0 <= n <= 31
PowerWord(n) == IF n < QBITS THEN <<2 ^ n, 0, 0, 0>>
                ELSE <<0, 2 ^ (n - QBITS), 0, 0>>

\* C23: for every a and every N in 0 .. 31, qals(a, qint(N)) is a * 2^N
\* passed through the overflow policy.
C23_LeftShiftScales ==
  pc = "qals" => r = qsat(WMul(W64(a), PowerWord(qtoi(b))))

\* |x - y| < epsilon, on the exact difference
CloserThan(x, y, epsilon) ==
  WLess(WAbs(WSub(W64(x), W64(y))), W64(epsilon))

\* C24: for every a, b and every epsilon >= 0, qapproxequal(a, b, epsilon)
\* is Q 1 when |a - b| < epsilon and Q 0 otherwise, and qapproxunequal is
\* the opposite value.
C24_ApproxEqual ==
  /\ pc = "qapproxequal" =>
       r = IF CloserThan(a, b, c) THEN QINT(1) ELSE QINT(0)
  /\ pc = "qapproxunequal" =>
       r = IF CloserThan(a, b, c) THEN QINT(0) ELSE QINT(1)


\* C21: for every x >= 0 and under either overflow policy the loop of qsqrt
\* ends, with a residual |guess * guess - x| of at most the tolerance (0x10
\* up to 100, 0x100 above), and qsqrt(0) returns 0.  The loop computes each
\* guess from the one before and from nothing else, so it runs for ever
\* exactly when a guess comes back: it ends when no guess is seen twice.
C21_SqrtTerminates ==
  /\ pc = "qsqrt" => locals.guess \notin locals.seen
  /\ pc # "abort"
  /\ pc = "qsqrt_return" /\ a = 0 => r = 0
  /\ pc = "qsqrt_return" /\ a # 0 =>
       /\ locals.difference = (IF a > QINT(100) THEN 256 ELSE 16)
       /\ NAbs(qsub(qmul(locals.guess, locals.guess), a))
            >= -locals.difference


\* C22: for every angle theta the pair (s, c) that qsincos returns
\* satisfies |qmul(s, s) + qmul(c, c) - 1.0| <= 16 units.
C22_SinCosUnitCircle ==
  pc = "qsincos" =>
    qadd(qmul(r.sine, r.sine), qmul(r.cosine, r.cosine)) - QINT(1)
      \in -16 .. 16

\* the number of updates made with shift index i
Updates(shifts, i) == Cardinality({k \in DOMAIN shifts : shifts[k] = i})

\* C26: in hyperbolic mode the loop makes the update once for each shift
\* index 1 .. 17, except 4 and 13, for which it makes it twice, and the
\* indices come in ascending order.
C26_HyperbolicRepeats ==
  pc = "qsincosh" =>
    /\ \A i \in 1 .. Len(arctanhs) :
         Updates(r.shifts, i) = IF i \in {4, 13} THEN 2 ELSE 1
    /\ \A k \in 1 .. Len(r.shifts) - 1 : r.shifts[k] <= r.shifts[k + 1]

\* C27: qexp hands to qcordic_exp only arguments e with |e| < 1, and for
\* every e with |e| >= 1, negative ones included, it calls itself with e / 2
\* before it does.
C27_ExpArgumentWindow ==
  pc = "qcordic_exp" =>
    /\ qless(qabs(locals.e), QINT(1)) # 0
    /\ locals.caller = "qexp" /\ qless(qabs(a), QINT(1)) = 0 =>
         locals.depth >= 1

\* C25: qpow(0, 0) returns Q 1 and no assertion fails, and qpow(0, e) with
\* e < 0 fails an assertion and returns nothing.
C25_PowerOfZero ==
  /\ pc \in {"qpow", "qpow_back", "qpow_return", "abort"} /\ a = 0 /\ b = 0 =>
       /\ pc # "abort"
       /\ pc = "qpow_return" => r = QINT(1)
  /\ a = 0 /\ b < 0 => pc # "qpow_return"


\* the entries of the table with the name
Named(name) == {i \in 1 .. Len(ops) : ops[i].name = name}

\* C28: the table is strictly ascending in strcmp order, and for every name
\* the binary search of qop ends with every index it probes inside the
\* table, and returns the entry with that name if there is one and NULL
\* otherwise, also for names before the first entry or after the last one.
C28_BinarySearch ==
  /\ \A i \in 1 .. Len(ops) - 1 : strcmp(ops[i].name, ops[i + 1].name, 1) < 0
  /\ pc # "abort"
  /\ pc = "qop" =>
       IF Named(text) = {} THEN r = NULL ELSE r \in Named(text)


\* C29: for every number, every radix 2 .. 36 and every number of places,
\* the negative one that asks for digits until the fraction is zero
\* included, the fraction loop of qsprintbdp ends after it has written at
\* most 16 digits, and its index stays inside frac[], so that its assertion
\* holds.
C29_FractionLoop ==
  /\ pc # "abort"
  /\ pc = "qsprintbdp" =>
       Len(qsprintbdp_fraction(qlow(qabs(a)), base, idp)[2]) <= QBITS


\* the lexer cuts the name of entry i of the table as one operator token,
\* which is that entry
LexedAsOperator(i) ==
  LET one(toks) ==
        Len(toks) = 1 /\ IsOperator(toks[1]) /\ toks[1].op = i
  IN  one(Tokens(ops[i].name))

\* C30: every name of the operator table other than the parentheses, the
\* predicates int?, odd?, even?, pos? and neg? included, is cut by the lexer
\* as a single operator token and can be applied: "odd? 3" evaluates to 1.
C30_EveryOperatorLexed ==
  pc = "qexpr_return" =>
    /\ \A i \in 1 .. Len(ops) :
         ops[i].name \notin {<<"(">>, <<")">>} => LexedAsOperator(i)
    /\ text = <<"o", "d", "d", "?", " ", "3">> =>
         r = 0 /\ evaluator.numbers = <<QINT(1)>>

====
